---- MODULE Spec2Model ----
(***************************************************************************)
(* TaskFlow: the namespaced cache (CacheService over an ioredis client),   *)
(* the fixed-window rate limiter (RateLimitGuard), the login lockout guard *)
(* (AuthService) and the task mutation pipeline (TasksService).            *)
(*                                                                         *)
(* Every await of the code is one step: a cache, store or queue command is *)
(* a suspension point at which other requests run.  Time is the wall clock *)
(* in milliseconds (Date.now()); the cache server drops a key when its     *)
(* expiry time is reached.                                                 *)
(*                                                                         *)
(* A cache key is the sequence of its ':'-separated tokens.  The keys the  *)
(* server holds are physical names: the ioredis client puts its keyPrefix  *)
(* in front of the key argument of GET, SETEX, DEL, INCRBY, EXPIRE, EXISTS *)
(* and TTL, but not in front of the pattern of KEYS, and the names KEYS    *)
(* returns are physical names.                                             *)
(***************************************************************************)
EXTENDS Integers, Sequences, FiniteSets, TLC

VARIABLES
  now,      \* Date.now(), in milliseconds
  redis,    \* the cache server: physical key -> [val, exp]; exp = 0 is "no expiry"
  errors,   \* CacheService.stats.errors
  rl,       \* the RateLimitGuard.canActivate calls: request -> its locals
  cc,       \* direct callers of CacheService: caller -> its call
  au,       \* the AuthService.login calls: worker -> the locals of its current call
  logins,   \* how many login calls have been made, and how many with a valid password
  db,       \* the durable store: task id -> the committed row
  ops,      \* the TasksService calls: position, arguments, transaction, locals
  timers,   \* the setImmediate callbacks scheduled and not yet run
  queue,    \* the 'task-processing' queue: the jobs added, oldest first
  faults,   \* how many store and queue commands have failed
  worker    \* TaskProcessorService: the job it processes and its locals

vars == <<now, redis, errors, rl, cc, au, logins, db, ops, timers, queue, faults, worker>>

\* what the rate limiter's steps leave alone, besides the cache
notRate == <<cc, au, logins, db, ops, timers, queue, faults, worker>>
\* what the direct cache callers' steps leave alone, besides the cache
notCallers == <<rl, au, logins, db, ops, timers, queue, faults, worker>>
\* what the login steps leave alone, besides the cache
notAuth == <<rl, cc, db, ops, timers, queue, faults, worker>>
\* what the task operations' steps leave alone, besides the cache
notTasks == <<rl, cc, au, logins, worker>>
\* what the job processor's steps leave alone, besides the cache, the store and the queue
notWorker == <<rl, cc, au, logins, ops, timers>>

-----------------------------------------------------------------------------
(* Bounds of the model *)

\* the policy's limit (RateLimitOptions.limit) used by the limiter's requests
RateLimit == 1
\* how many cache commands may fail in one behaviour
MaxErrors == 1
\* how many callers use CacheService.increment at the same time
NumCallers == 3
\* how many login calls are made in one behaviour
MaxLogins == 6
\* how many TasksService calls are made in one behaviour
MaxOps == 3
\* how many calls the direct callers of CacheService set, get and delPattern make
MaxCacheCalls == 3
\* how many jobs the scheduled sweeps add to the queue in one behaviour
MaxSweepJobs == 1

-----------------------------------------------------------------------------
(* Program constants *)

MsPerSecond == 1000
\* keyPrefix handed to the ioredis client
KeyPrefix == "taskflow:cache:"

\* the policy's windowMs (RateLimitOptions.windowMs) used by the limiter's requests
RateWindowMs == 2 * MsPerSecond
\* the clock step of the rate-limiter specifications
RateTickMs == MsPerSecond
\* the rate-limiter specifications cover two windows
RateHorizonMs == 2 * RateWindowMs

\* the limiter's requests: enough for a full window, one rejection and the next window
RLReqs == 1 .. (RateLimit + 2)
\* the identity of the requests: request.user.id
RLUser == "1"

-----------------------------------------------------------------------------
(* Arithmetic of the code *)

\* Math.ceil(a / b) for a >= 0, b > 0
CeilDiv(a, b) == (a + b - 1) \div b

\* Math.max
Max(a, b) == IF a >= b THEN a ELSE b

-----------------------------------------------------------------------------
(* The cache server (Redis) on physical keys *)

\* the keys of store s that are still there at time t
Unexpired(s, t) == {k \in DOMAIN s : s[k].exp = 0 \/ t < s[k].exp}

\* the server's expiry: what is left of store s at time t
Purge(s, t) == [k \in Unexpired(s, t) |-> s[k]]

\* SETEX k ttl v
RedisSetEx(s, k, ttl, v) ==
  [x \in DOMAIN s \cup {k} |->
     IF x = k THEN [val |-> v, exp |-> now + ttl * MsPerSecond] ELSE s[x]]

\* DEL of the keys ks
RedisDel(s, ks) == [x \in DOMAIN s \ ks |-> s[x]]

\* an increment done as read, add, write back by the client on a stale read
RedisIncrByLostUpdate(s, k, a) ==
  [x \in DOMAIN s \cup {k} |-> IF x = k THEN [val |-> a, exp |-> 0] ELSE s[x]]

\* INCRBY k a: an absent key counts as 0 and is created without expiry
RedisIncrBy(s, k, a) ==
  [x \in DOMAIN s \cup {k} |->
     IF x = k
     THEN IF k \in DOMAIN s THEN [s[k] EXCEPT !.val = @ + a]
                            ELSE [val |-> a, exp |-> 0]
     ELSE s[x]]

\* EXPIRE k ttl: only an existing key gets the expiry
RedisExpire(s, k, ttl) ==
  IF k \in DOMAIN s
  THEN [s EXCEPT ![k].exp = now + ttl * MsPerSecond]
  ELSE s

\* glob match of a pattern against a name, token by token; "*" is any run of tokens
RECURSIVE GlobMatch(_, _)
GlobMatch(pat, name) ==
  IF pat = <<>> THEN name = <<>>
  ELSE IF Head(pat) = "*"
       THEN GlobMatch(Tail(pat), name)
            \/ (name # <<>> /\ GlobMatch(pat, Tail(name)))
       ELSE name # <<>> /\ Head(name) = Head(pat) /\ GlobMatch(Tail(pat), Tail(name))

\* KEYS pattern: the physical names that match the pattern as it was sent
RedisKeys(s, pat) == {k \in DOMAIN s : GlobMatch(pat, k)}

-----------------------------------------------------------------------------
(* CacheService *)

\* the ioredis client's transparent key prefixing of a key argument
Prefixed(k) == <<KeyPrefix>> \o k

\* CacheService.generateKey
GenerateKey(key, namespace) == <<namespace>> \o key

\* the physical key a CacheService command on (key, namespace) addresses
CacheKey(key, namespace) == Prefixed(GenerateKey(key, namespace))

\* whether a cache command may fail now (the error is counted in stats.errors)
CanFail == errors < MaxErrors

\* CacheService.get of a number, with the caller's "|| 0"
CacheGetNumber(key, namespace) ==
  IF CacheKey(key, namespace) \in DOMAIN redis
  THEN redis[CacheKey(key, namespace)].val
  ELSE 0

\* key.replace(this.keyPrefix, '') of a name KEYS returned
StripPrefix(k) == IF k # <<>> /\ Head(k) = KeyPrefix THEN Tail(k) ELSE k

\* CacheService.delPattern: KEYS on the namespaced pattern, then DEL of the
\* names found with the prefix stripped (DEL puts the prefix back)
DelPatternKeys(s, pattern, namespace) ==
  {Prefixed(StripPrefix(k)) : k \in RedisKeys(s, GenerateKey(pattern, namespace))}

CacheDelPattern(s, pattern, namespace) ==
  RedisDel(s, DelPatternKeys(s, pattern, namespace))

-----------------------------------------------------------------------------
(* RateLimitGuard *)

\* windowStart = Math.floor(Date.now() / windowMs) * windowMs
WindowStart(t) == (t \div RateWindowMs) * RateWindowMs

\* cacheKey = `rate_limit:${key}:${windowStart}` with key = `user:${user.id}`
RateKey(ws) == <<"rate_limit", "user", RLUser, ToString(ws)>>

\* the key of the window counter on the server
RateCounter(ws) == CacheKey(RateKey(ws), "rate_limit")

\* retryAfter = Math.ceil((windowStart + windowMs - Date.now()) / 1000)
RetryAfter(ws, t) ==
  IF ws + RateWindowMs - t >= 0
  THEN CeilDiv(ws + RateWindowMs - t, MsPerSecond)
  ELSE -((t - ws - RateWindowMs) \div MsPerSecond)

\* two routes of TasksController with policies of the same window: the limit of
\* GET /tasks is the larger one
Routes == {"POST /tasks", "GET /tasks"}
PolicyLimit(route) == IF route = "GET /tasks" THEN RateLimit + 1 ELSE RateLimit

RLIdle ==
  [pc |-> "idle", route |-> "POST /tasks", limit |-> PolicyLimit("POST /tasks"),
   windowStart |-> 0, currentCount |-> 0, newCount |-> 0,
   result |-> "none", retryAfter |-> 0, remaining |-> 0, cacheError |-> FALSE]

\* canActivate up to the first await: the key of the current window
\* (the requests are numbered in their order of arrival)
RLStart(p) ==
  /\ rl[p].pc = "idle"
  /\ \A q \in RLReqs : q < p => rl[q].pc # "idle"
  /\ rl' = [rl EXCEPT ![p].pc = "get", ![p].windowStart = WindowStart(now)]
  /\ UNCHANGED <<now, redis, errors, notRate>>

\* a request to a route arrives: rateLimitOptions is the policy of the route, the
\* key is that of the user and the window
RLStartOn(p, route) ==
  /\ rl[p].pc = "idle"
  /\ \A q \in RLReqs : q < p => rl[q].pc # "idle"
  /\ rl' = [rl EXCEPT ![p].pc = "get", ![p].route = route,
                      ![p].limit = PolicyLimit(route),
                      ![p].windowStart = WindowStart(now)]
  /\ UNCHANGED <<now, redis, errors, notRate>>

\* an off-by-one limit test
OverLimitOffByOne(count, limit) == count > limit

\* the over-limit test on the count read: currentCount >= rateLimitOptions.limit
OverLimit(count, limit) == count >= limit

\* what canActivate does with the count it read: reject, or go on to increment
RLAfterGet(p, count, failed) ==
  IF OverLimit(count, rl[p].limit)
  THEN [rl EXCEPT ![p].pc = "done", ![p].currentCount = count,
                  ![p].result = "RateLimitException",
                  ![p].retryAfter = RetryAfter(rl[p].windowStart, now),
                  ![p].remaining = 0,
                  ![p].cacheError = @ \/ failed]
  ELSE [rl EXCEPT ![p].pc = "incr", ![p].currentCount = count,
                  ![p].cacheError = @ \/ failed]

\* cacheService.get(cacheKey, 'rate_limit') || 0, then the limit test
RLGet(p) ==
  /\ rl[p].pc = "get"
  /\ rl' = RLAfterGet(p, CacheGetNumber(RateKey(rl[p].windowStart), "rate_limit"), FALSE)
  /\ UNCHANGED <<now, redis, errors, notRate>>

\* the read fails: CacheService.get logs, counts the error and returns null
RLGetFails(p) ==
  /\ rl[p].pc = "get"
  /\ CanFail
  /\ errors' = errors + 1
  /\ rl' = RLAfterGet(p, 0, TRUE)
  /\ UNCHANGED <<now, redis, notRate>>

\* remaining computed from the count before the request's own increment
RLAllowedBeforeIncrement(p, count) ==
  [rl EXCEPT ![p].pc = "done", ![p].newCount = count, ![p].result = "allowed",
             ![p].remaining = Max(0, rl[p].limit - (count - 1))]

\* the request is allowed with the count its increment returned
RLAllowed(p, count) ==
  [rl EXCEPT ![p].pc = "done", ![p].newCount = count, ![p].result = "allowed",
             ![p].remaining = Max(0, rl[p].limit - count)]

\* incrementCounter: cacheService.increment(key, 1, 'rate_limit')
RLIncr(p) ==
  /\ rl[p].pc = "incr"
  /\ redis' = RedisIncrBy(redis, RateCounter(rl[p].windowStart), 1)
  /\ LET count == redis'[RateCounter(rl[p].windowStart)].val
     IN rl' = IF count = 1
              THEN [rl EXCEPT ![p].pc = "expire", ![p].newCount = count]
              ELSE RLAllowed(p, count)
  /\ UNCHANGED <<now, errors, notRate>>

\* a catch block that lets the cache error out instead
FailClosed(p) ==
  [rl EXCEPT ![p].pc = "done", ![p].result = "CacheError", ![p].cacheError = TRUE]

\* what canActivate's catch block answers when the increment threw
FailOpen(p) ==
  [rl EXCEPT ![p].pc = "done", ![p].result = "allowed", ![p].cacheError = TRUE]

\* the increment fails: CacheService.increment rethrows, incrementCounter rethrows,
\* canActivate's catch sees no RateLimitException and returns true
RLIncrFails(p) ==
  /\ rl[p].pc = "incr"
  /\ CanFail
  /\ errors' = errors + 1
  /\ rl' = FailOpen(p)
  /\ UNCHANGED <<now, redis, notRate>>

\* the expiry the first increment of a window sets, in seconds
RateTtl == CeilDiv(RateWindowMs, MsPerSecond)

\* incrementCounter: count === 1, cacheService.expire(key, ceil(windowMs / 1000))
RLExpire(p) ==
  /\ rl[p].pc = "expire"
  /\ redis' = RedisExpire(redis, RateCounter(rl[p].windowStart), RateTtl)
  /\ rl' = RLAllowed(p, rl[p].newCount)
  /\ UNCHANGED <<now, errors, notRate>>

\* the expire fails: CacheService.expire counts the error and returns false
RLExpireFails(p) ==
  /\ rl[p].pc = "expire"
  /\ CanFail
  /\ errors' = errors + 1
  /\ rl' = [RLAllowed(p, rl[p].newCount) EXCEPT ![p].cacheError = TRUE]
  /\ UNCHANGED <<now, redis, notRate>>

\* the clock advances and the server drops what has expired
RateTick ==
  /\ now + RateTickMs <= RateHorizonMs
  /\ now' = now + RateTickMs
  /\ redis' = Purge(redis, now')
  /\ UNCHANGED <<errors, rl, notRate>>

\* no canActivate call is between its first and its last step
RLQuiet == \A q \in RLReqs : rl[q].pc \in {"idle", "done"}

\* a call that starts when no other call is running
RLStartAlone(p) == RLQuiet /\ RLStart(p)

-----------------------------------------------------------------------------
(* Direct callers of CacheService.increment *)

\* the counter the callers increment, and its namespace
CounterKey == <<"counter">>
CounterNs == "metrics"
\* the amounts the callers pass
Amounts == {1, 2}

\* increment(key, amount, namespace) is called: the INCRBY command is sent
IncCall(p, amount) ==
  /\ p \notin DOMAIN cc
  /\ \A q \in 1 .. NumCallers : q < p => q \in DOMAIN cc
  /\ cc' = [q \in DOMAIN cc \cup {p} |->
              IF q = p THEN [pc |-> "sent", amount |-> amount, returned |-> 0]
              ELSE cc[q]]
  /\ UNCHANGED <<now, redis, errors, notCallers>>

\* CacheService.increment: the server runs INCRBY and the call returns the new value
IncExec(p) ==
  /\ p \in DOMAIN cc /\ cc[p].pc = "sent"
  /\ redis' = RedisIncrBy(redis, CacheKey(CounterKey, CounterNs), cc[p].amount)
  /\ cc' = [cc EXCEPT ![p].pc = "returned",
                      ![p].returned = redis'[CacheKey(CounterKey, CounterNs)].val]
  /\ UNCHANGED <<now, errors, notCallers>>

\* the command fails: CacheService.increment counts the error and rethrows
IncFails(p) ==
  /\ p \in DOMAIN cc /\ cc[p].pc = "sent"
  /\ CanFail
  /\ errors' = errors + 1
  /\ cc' = [cc EXCEPT ![p].pc = "threw"]
  /\ UNCHANGED <<now, redis, notCallers>>

NextIncr ==
  \/ \E p \in 1 .. NumCallers, a \in Amounts : IncCall(p, a)
  \/ \E p \in 1 .. NumCallers : IncExec(p)
  \/ \E p \in 1 .. NumCallers : IncFails(p)

-----------------------------------------------------------------------------
(* Direct callers of CacheService.set and get *)

\* REDIS_DEFAULT_TTL when the environment does not set it
DefaultTtl == 3600

\* the key and the namespace the callers of set and get use
CallerKeys == {<<"task", "1">>}
CallerNamespaces == {"tasks"}

\* options?.ttl: <<>> is a call without a ttl, <<t>> one with ttl: t
TtlOptions == {<<>>, <<0>>, <<1>>, <<2>>}

\* the clock steps of the cache specifications: a second, three times in a row
\* at most, and the default TTL, once
CacheTickMs == MsPerSecond
CacheLongTickMs == DefaultTtl * MsPerSecond
CacheTicksInRow == 2 + 1

\* the next call: the calls are numbered in the order the server runs them
NextCall == Len(cc) + 1

\* a set that sends SET, which leaves the key without an expiry
CacheSetNoExpiry(s, key, namespace, opt, v) ==
  [x \in DOMAIN s \cup {CacheKey(key, namespace)} |->
     IF x = CacheKey(key, namespace) THEN [val |-> v, exp |-> 0] ELSE s[x]]

\* ttl = options?.ttl || this.defaultTtl
EffectiveTtl(opt) == IF opt = <<>> \/ opt[1] = 0 THEN DefaultTtl ELSE opt[1]

\* CacheService.set: redis.setex(cacheKey, ttl, serializedValue)
CacheSet(s, key, namespace, opt, v) ==
  RedisSetEx(s, CacheKey(key, namespace), EffectiveTtl(opt), v)

\* set(key, value, { ttl, namespace }) with the number of the call as the value
SetCall(key, namespace, opt) ==
  /\ Len(cc) < MaxCacheCalls
  /\ redis' = CacheSet(redis, key, namespace, opt, NextCall)
  /\ cc' = Append(cc, [op |-> "set", key |-> key, namespace |-> namespace, opt |-> opt,
                       at |-> now, result |-> NextCall])
  /\ UNCHANGED <<now, errors, notCallers>>

\* the SETEX fails: set counts the error and rethrows, nothing is written
SetCallFails(key, namespace, opt) ==
  /\ Len(cc) < MaxCacheCalls
  /\ CanFail
  /\ errors' = errors + 1
  /\ cc' = Append(cc, [op |-> "set", key |-> key, namespace |-> namespace, opt |-> opt,
                       at |-> now, result |-> -1])
  /\ UNCHANGED <<now, redis, notCallers>>

\* get(key, namespace): the value, or null (0 here) when GET finds no key
GetCall(key, namespace) ==
  LET k == CacheKey(key, namespace) IN
  /\ Len(cc) < MaxCacheCalls
  /\ cc' = Append(cc, [op |-> "get", key |-> key, namespace |-> namespace, opt |-> <<>>,
                       at |-> now,
                       result |-> IF k \in DOMAIN redis THEN redis[k].val ELSE 0])
  /\ UNCHANGED <<now, redis, errors, notCallers>>

\* the GET fails: get counts the error and a miss and returns null
GetCallFails(key, namespace) ==
  /\ Len(cc) < MaxCacheCalls
  /\ CanFail
  /\ errors' = errors + 1
  /\ cc' = Append(cc, [op |-> "get", key |-> key, namespace |-> namespace, opt |-> <<>>,
                       at |-> now, result |-> 0])
  /\ UNCHANGED <<now, redis, notCallers>>

\* the clock advances by d and the server drops what has expired
CacheTick(d) ==
  /\ IF d = CacheLongTickMs THEN now < CacheLongTickMs
     ELSE (now % CacheLongTickMs) + d <= CacheTicksInRow * CacheTickMs
  /\ now' = now + d
  /\ redis' = Purge(redis, now')
  /\ UNCHANGED <<errors, cc, notCallers>>

\* the keys, namespaces, ttls and patterns the callers of delPattern use
PatternKeys == {<<"list", "u1">>, <<"stats", "u1">>}
PatternNamespaces == {"tasks", "stats"}
PatternTtls == {<<1>>, <<2>>}
Patterns == {<<"list", "*">>, <<"stats", "u1">>, <<"*">>, <<"detail", "*">>}

\* delPattern(pattern, namespace): KEYS on generateKey(pattern, namespace), 0 when
\* it finds nothing, else DEL of what it found and the number DEL removed
DelPatternCall(pattern, namespace) ==
  LET keys == DelPatternKeys(redis, pattern, namespace) IN
  /\ Len(cc) < MaxCacheCalls
  /\ redis' = CacheDelPattern(redis, pattern, namespace)
  /\ cc' = Append(cc, [op |-> "delPattern", key |-> pattern, namespace |-> namespace,
                       opt |-> <<>>, at |-> now,
                       result |-> Cardinality(keys \cap DOMAIN redis)])
  /\ UNCHANGED <<now, errors, notCallers>>

\* KEYS or DEL fails: delPattern counts the error and rethrows
DelPatternCallFails(pattern, namespace) ==
  /\ Len(cc) < MaxCacheCalls
  /\ CanFail
  /\ errors' = errors + 1
  /\ cc' = Append(cc, [op |-> "delPattern", key |-> pattern, namespace |-> namespace,
                       opt |-> <<>>, at |-> now, result |-> -1])
  /\ UNCHANGED <<now, redis, notCallers>>

NextDelPattern ==
  \/ \E k \in PatternKeys, ns \in PatternNamespaces, o \in PatternTtls : SetCall(k, ns, o)
  \/ \E pt \in Patterns, ns \in PatternNamespaces : DelPatternCall(pt, ns)
  \/ \E pt \in Patterns, ns \in PatternNamespaces : DelPatternCallFails(pt, ns)
  \/ CacheTick(CacheTickMs)

NextTtl ==
  \/ \E k \in CallerKeys, ns \in CallerNamespaces, o \in TtlOptions : SetCall(k, ns, o)
  \/ \E k \in CallerKeys, ns \in CallerNamespaces, o \in TtlOptions : SetCallFails(k, ns, o)
  \/ \E k \in CallerKeys, ns \in CallerNamespaces : GetCall(k, ns)
  \/ \E k \in CallerKeys, ns \in CallerNamespaces : GetCallFails(k, ns)
  \/ \E d \in {CacheTickMs, CacheLongTickMs} : CacheTick(d)

-----------------------------------------------------------------------------
(* AuthService.login and its brute-force protection, for one email *)

\* maxAttempts = 5
MaxAttempts == 5
\* lockoutDuration: 15 * 60 seconds
LockoutTtl == 15 * 60
\* the failed-attempt counter's expiry: 24 * 60 * 60 seconds
AttemptsTtl == 24 * 60 * 60
\* JWT_REFRESH_TOKEN_TTL, in seconds
RefreshTokenTtl == 604800

\* the email of the login calls
Email == "e"
\* the request workers that run login calls
AuthWorkers == {1, 2}

\* the clock steps of the login specifications: ten minutes, and a jump to ten
\* minutes before the expiry of a counter created at time 0
AuthTickMs == 10 * 60 * MsPerSecond
AuthLongMs == AttemptsTtl * MsPerSecond - AuthTickMs
\* the short steps the clock makes: enough for a lockout to expire
AuthTicks == (LockoutTtl * MsPerSecond) \div AuthTickMs + 1
\* how many login calls, the last ones, may overlap with another login call
OverlapLogins == Cardinality(AuthWorkers)
\* how many login calls are made with the valid password: those beyond the threshold
MaxValidLogins == MaxLogins - MaxAttempts
\* whether the clock has made its long jump, and how many short steps it made
LongJumps(t) == IF t >= AuthLongMs THEN 1 ELSE 0
ShortTicks(t) == (t - LongJumps(t) * AuthLongMs) \div AuthTickMs

\* `failed_attempts:${email}` and `lockout:${email}` in the namespace 'auth'
AttemptsKey == CacheKey(<<"failed_attempts", Email>>, "auth")
LockoutKey == CacheKey(<<"lockout", Email>>, "auth")
\* `refresh_token:${tokenId}` in the namespace 'auth'
RefreshKey(tokenId) == CacheKey(<<"refresh_token", tokenId>>, "auth")

AuIdle ==
  [pc |-> "idle", password |-> "none", failedAttempts |-> 0, attempts |-> 0,
   ttl |-> 0, outcome |-> "none", tokenId |-> "none",
   lockedAtStart |-> FALSE, lockedSince |-> FALSE, counterAtStart |-> 0,
   alone |-> FALSE, kind |-> "login", revokedAtStart |-> FALSE]

\* a login call is between its first and its last step
InFlight(q) == au[q].pc \notin {"idle", "done"}

\* the lockout flag exists
Locked(s) == LockoutKey \in DOMAIN s

\* the value of the failed-attempt counter, 0 when absent
Attempts(s) == IF AttemptsKey \in DOMAIN s THEN s[AttemptsKey].val ELSE 0

\* login(loginDto) is called on worker p with a valid or an invalid password.
\* lockedAtStart, counterAtStart and alone record what the call found, and
\* lockedSince whether the lockout flag has existed ever since, for the
\* properties; a call that starts ends "alone" for the calls in flight.  The
\* workers are interchangeable: the call goes to the first one that is free.
\* The first calls of a behaviour come one after the other, the last
\* OverlapLogins calls may come while another call is running.
LoginStart(p, password) ==
  /\ ~InFlight(p)
  /\ \A q \in AuthWorkers : q < p => InFlight(q)
  /\ logins.made < MaxLogins
  /\ (\E q \in AuthWorkers : InFlight(q)) => logins.made >= MaxLogins - OverlapLogins
  /\ password = "valid" => logins.valid < MaxValidLogins
  /\ logins' = [made |-> logins.made + 1,
                 valid |-> logins.valid + IF password = "valid" THEN 1 ELSE 0]
  /\ au' = [q \in AuthWorkers |->
              IF q = p
              THEN [AuIdle EXCEPT !.pc = "bf_get", !.password = password,
                                  !.tokenId = ToString(logins.made + 1),
                                  !.lockedAtStart = Locked(redis),
                                  !.lockedSince = Locked(redis),
                                  !.counterAtStart = Attempts(redis),
                                  !.alone = \A r \in AuthWorkers \ {p} : ~InFlight(r)]
              ELSE IF InFlight(q) THEN [au[q] EXCEPT !.alone = FALSE] ELSE au[q]]
  /\ UNCHANGED <<now, redis, errors, notAuth>>

\* a login call that starts when no other call is running
LoginStartAlone(p, password) ==
  /\ \A q \in AuthWorkers : ~InFlight(q)
  /\ LoginStart(p, password)

\* the call ends with an outcome; its locals are gone (a successful call keeps
\* what it recorded at its start)
AuDone(p, outcome) ==
  [au EXCEPT ![p] = [AuIdle EXCEPT !.pc = "done", !.outcome = outcome]]

\* the test that sends checkBruteForceProtection to the lockout flag
AtMaxAttempts(n) == n >= MaxAttempts

\* checkBruteForceProtection after the counter was read
AfterBfGet(p, n) ==
  [au EXCEPT ![p].failedAttempts = n,
             ![p].pc = IF AtMaxAttempts(n) THEN "bf_exists" ELSE "cred"]

\* checkBruteForceProtection: cacheService.get(`failed_attempts:${email}`, 'auth') || 0
BfGet(p) ==
  /\ au[p].pc = "bf_get"
  /\ au' = AfterBfGet(p, Attempts(redis))
  /\ UNCHANGED <<now, redis, errors, logins, notAuth>>

\* the read fails: CacheService.get returns null
BfGetFails(p) ==
  /\ au[p].pc = "bf_get"
  /\ CanFail
  /\ errors' = errors + 1
  /\ au' = AfterBfGet(p, 0)
  /\ UNCHANGED <<now, redis, logins, notAuth>>

\* checkBruteForceProtection: cacheService.exists(lockoutKey, 'auth')
BfExists(p) ==
  /\ au[p].pc = "bf_exists"
  /\ au' = [au EXCEPT ![p].pc = IF Locked(redis) THEN "bf_ttl" ELSE "cred"]
  /\ UNCHANGED <<now, redis, errors, logins, notAuth>>

\* the exists fails: CacheService.exists returns false
BfExistsFails(p) ==
  /\ au[p].pc = "bf_exists"
  /\ CanFail
  /\ errors' = errors + 1
  /\ au' = [au EXCEPT ![p].pc = "cred"]
  /\ UNCHANGED <<now, redis, logins, notAuth>>

\* TTL k: the seconds left, -1 without expiry, -2 for an absent key
RedisTtl(s, k) ==
  IF k \notin DOMAIN s THEN -2
  ELSE IF s[k].exp = 0 THEN -1
  ELSE CeilDiv(s[k].exp - now, MsPerSecond)

\* checkBruteForceProtection: cacheService.ttl(lockoutKey, 'auth'), then
\* BusinessLogicException('Account temporarily locked ...')
BfTtl(p) ==
  /\ au[p].pc = "bf_ttl"
  /\ au' = [AuDone(p, "locked") EXCEPT ![p].ttl = RedisTtl(redis, LockoutKey)]
  /\ UNCHANGED <<now, redis, errors, logins, notAuth>>

\* the ttl fails: CacheService.ttl returns -1
BfTtlFails(p) ==
  /\ au[p].pc = "bf_ttl"
  /\ CanFail
  /\ errors' = errors + 1
  /\ au' = [AuDone(p, "locked") EXCEPT ![p].ttl = -1]
  /\ UNCHANGED <<now, redis, logins, notAuth>>

\* usersService.findByEmail and bcrypt.compare: no user or a wrong password goes to
\* recordFailedAttempt, a right one to clearFailedAttempts
Credentials(p) ==
  /\ au[p].pc = "cred"
  /\ au' = [au EXCEPT ![p].pc = IF au[p].password = "valid" THEN "clr_attempts"
                                                           ELSE "rec_incr"]
  /\ UNCHANGED <<now, redis, errors, logins, notAuth>>

\* recordFailedAttempt after the increment returned attempts
AfterRecIncr(p, n) ==
  IF n = 1 THEN [au EXCEPT ![p].attempts = n, ![p].pc = "rec_expire"]
  ELSE IF n >= MaxAttempts THEN [au EXCEPT ![p].attempts = n, ![p].pc = "rec_lock"]
  ELSE AuDone(p, "invalid")

\* recordFailedAttempt: cacheService.increment(key, 1, 'auth')
RecIncr(p) ==
  /\ au[p].pc = "rec_incr"
  /\ redis' = RedisIncrBy(redis, AttemptsKey, 1)
  /\ au' = AfterRecIncr(p, redis'[AttemptsKey].val)
  /\ UNCHANGED <<now, errors, logins, notAuth>>

\* the increment fails: the cache error leaves login
RecIncrFails(p) ==
  /\ au[p].pc = "rec_incr"
  /\ CanFail
  /\ errors' = errors + 1
  /\ au' = AuDone(p, "error")
  /\ UNCHANGED <<now, redis, logins, notAuth>>

\* recordFailedAttempt after the expire of the first attempt
AfterRecExpire(p) ==
  IF au[p].attempts >= MaxAttempts
  THEN [au EXCEPT ![p].pc = "rec_lock"]
  ELSE AuDone(p, "invalid")

\* recordFailedAttempt: attempts === 1, cacheService.expire(key, 24 * 60 * 60, 'auth')
RecExpire(p) ==
  /\ au[p].pc = "rec_expire"
  /\ redis' = RedisExpire(redis, AttemptsKey, AttemptsTtl)
  /\ au' = AfterRecExpire(p)
  /\ UNCHANGED <<now, errors, logins, notAuth>>

\* the expire fails: CacheService.expire returns false
RecExpireFails(p) ==
  /\ au[p].pc = "rec_expire"
  /\ CanFail
  /\ errors' = errors + 1
  /\ au' = AfterRecExpire(p)
  /\ UNCHANGED <<now, redis, logins, notAuth>>

\* recordFailedAttempt: attempts >= 5, cacheService.set(`lockout:${email}`, true,
\* { ttl: 15 * 60 }), then AuthenticationException('Invalid credentials')
RecLock(p) ==
  /\ au[p].pc = "rec_lock"
  /\ redis' = RedisSetEx(redis, LockoutKey, LockoutTtl, TRUE)
  /\ au' = AuDone(p, "invalid")
  /\ UNCHANGED <<now, errors, logins, notAuth>>

\* the set fails: the cache error leaves login
RecLockFails(p) ==
  /\ au[p].pc = "rec_lock"
  /\ CanFail
  /\ errors' = errors + 1
  /\ au' = AuDone(p, "error")
  /\ UNCHANGED <<now, redis, logins, notAuth>>

\* clearFailedAttempts: cacheService.del(`failed_attempts:${email}`, 'auth')
ClrAttempts(p) ==
  /\ au[p].pc = "clr_attempts"
  /\ redis' = RedisDel(redis, {AttemptsKey})
  /\ au' = [au EXCEPT ![p].pc = "clr_lockout"]
  /\ UNCHANGED <<now, errors, logins, notAuth>>

\* the del fails: the cache error leaves login
ClrAttemptsFails(p) ==
  /\ au[p].pc = "clr_attempts"
  /\ CanFail
  /\ errors' = errors + 1
  /\ au' = AuDone(p, "error")
  /\ UNCHANGED <<now, redis, logins, notAuth>>

\* a clearFailedAttempts that deletes the counter twice and forgets the flag
SecondClearedKeyWrong == AttemptsKey

\* the key clearFailedAttempts deletes second
SecondClearedKey == LockoutKey

\* clearFailedAttempts: cacheService.del(`lockout:${email}`, 'auth')
ClrLockout(p) ==
  /\ au[p].pc = "clr_lockout"
  /\ redis' = RedisDel(redis, {SecondClearedKey})
  /\ au' = [q \in AuthWorkers |->
              [au[q] EXCEPT !.pc = IF q = p THEN "tokens" ELSE @,
                            !.lockedSince = @ /\ Locked(redis')]]
  /\ UNCHANGED <<now, errors, logins, notAuth>>

\* the del fails: the cache error leaves login
ClrLockoutFails(p) ==
  /\ au[p].pc = "clr_lockout"
  /\ CanFail
  /\ errors' = errors + 1
  /\ au' = AuDone(p, "error")
  /\ UNCHANGED <<now, redis, logins, notAuth>>

\* generateTokens: cacheService.set(`refresh_token:${tokenId}`, {...},
\* { ttl: JWT_REFRESH_TOKEN_TTL, namespace: 'auth' }), then login returns
Tokens(p) ==
  /\ au[p].pc = "tokens"
  /\ redis' = RedisSetEx(redis, RefreshKey(au[p].tokenId), RefreshTokenTtl,
                         [userId |-> Email])
  /\ au' = [AuDone(p, "success") EXCEPT ![p].alone = au[p].alone,
                                        ![p].lockedAtStart = au[p].lockedAtStart,
                                        ![p].counterAtStart = au[p].counterAtStart]
  /\ UNCHANGED <<now, errors, logins, notAuth>>

\* the set fails: the cache error leaves login
TokensFails(p) ==
  /\ au[p].pc = "tokens"
  /\ CanFail
  /\ errors' = errors + 1
  /\ au' = AuDone(p, "error")
  /\ UNCHANGED <<now, redis, logins, notAuth>>

\* the clock advances by d and the server drops what has expired
AuthTick(d) ==
  /\ IF d = AuthLongMs THEN LongJumps(now) = 0 ELSE ShortTicks(now) < AuthTicks
  /\ now' = now + d
  /\ redis' = Purge(redis, now')
  /\ au' = [q \in AuthWorkers |-> [au[q] EXCEPT !.lockedSince = @ /\ Locked(redis')]]
  /\ UNCHANGED <<errors, logins, notAuth>>

AuthStep(p) ==
  \/ BfGet(p) \/ BfGetFails(p)
  \/ BfExists(p) \/ BfExistsFails(p)
  \/ BfTtl(p) \/ BfTtlFails(p)
  \/ Credentials(p)
  \/ RecIncr(p) \/ RecIncrFails(p)
  \/ RecExpire(p) \/ RecExpireFails(p)
  \/ RecLock(p) \/ RecLockFails(p)
  \/ ClrAttempts(p) \/ ClrAttemptsFails(p)
  \/ ClrLockout(p) \/ ClrLockoutFails(p)
  \/ Tokens(p) \/ TokensFails(p)

NextAuth ==
  \/ \E p \in AuthWorkers, pw \in {"valid", "invalid"} : LoginStart(p, pw)
  \/ \E p \in AuthWorkers : AuthStep(p)
  \/ \E d \in {AuthTickMs, AuthLongMs} : AuthTick(d)

NextAuthSeq ==
  \/ \E p \in AuthWorkers, pw \in {"valid", "invalid"} : LoginStartAlone(p, pw)
  \/ \E p \in AuthWorkers : AuthStep(p)
  \/ \E d \in {AuthTickMs, AuthLongMs} : AuthTick(d)

-----------------------------------------------------------------------------
(* TasksService: the store, the cache keys, the calls *)

\* the calls made to TasksService in one behaviour, numbered in order of arrival
TaskOps == 1 .. MaxOps
\* request.user.id of the caller whose reads and mutations are followed
TaskUser == "u1"
\* the users who create tasks
TaskOwners == {"u1", "u2"}
\* the id the store gives the task that call p creates
TaskIdOf(p) == "t" \o ToString(p)
TaskIds == {TaskIdOf(p) : p \in TaskOps}
\* TaskStatus.PENDING, the default of create, and the status an update asks for
StatusPending == "PENDING"
Statuses == {"PENDING", "COMPLETED"}
\* the title a task is created with, and the titles an update asks for
TitleGiven == "a"
Titles == {"a", "b"}
\* ttl of a cached list and of a cached task, in seconds
ListTtl == 300
TaskTtl == 600
\* ttl of cached statistics, in seconds
StatisticsTtl == 900
\* the clock of the task specifications advances by the ttl of a list, up to
\* the ttl of a task
TaskTickMs == ListTtl * MsPerSecond
TaskHorizonMs == TaskTtl * MsPerSecond

\* no task: what a lookup that finds nothing leaves in the locals
NoTask == [id |-> "none", userId |-> "none", status |-> "none", title |-> "none"]

\* generateCacheKey('tasks:list', { pagination, filters, userId, includeUser }):
\* base64 of the JSON text, for the query the controller builds from a request
\* without parameters,
\* {"filters":{},"includeUser":false,"pagination":{"page":1,"limit":10},"userId":"u1"}
ListQueryBase64 ==
  "eyJmaWx0ZXJzIjp7fSwiaW5jbHVkZVVzZXIiOmZhbHNlLCJwYWdpbmF0aW9uIjp7InBhZ2UiOjEsImxpbWl0IjoxMH0sInVzZXJJZCI6InUxIn0="
ListKey == <<"tasks", "list", ListQueryBase64>>

\* `task:${id}`
TaskKey(id) == <<"task", id>>

\* `stats:user:${userId}`
StatisticsKey(userId) == <<"stats", "user", userId>>

\* the patterns invalidateTaskCache(userId) hands to delPattern, in its order
InvPatterns(userId) ==
  << <<"tasks", "list", "*", "user", "*", userId, "*">>,
     <<"stats", "user", userId>>,
     <<"tasks", "list", "*">>,
     <<"stats", "global">> >>

\* the rows of store d that a list query scoped to userId returns
RowsOf(d, userId) == {d[id] : id \in {i \in DOMAIN d : d[i].userId = userId}}

\* the store after a transaction's writes w are committed
Committed(d, w) ==
  LET gone == {i \in DOMAIN w : ~w[i].live} IN
  [i \in (DOMAIN d \cup DOMAIN w) \ gone |->
     IF i \in DOMAIN w THEN w[i].row ELSE d[i]]

\* a store or queue command may fail now
CanFault == faults < MaxErrors

OpIdle ==
  [pc |-> "idle", kind |-> "none", userId |-> "none", taskId |-> "none",
   ids |-> {}, idList |-> <<>>, status |-> "none", title |-> "none", tx |-> "none",
   writes |-> <<>>,
   task |-> NoTask,
   found |-> {}, failed |-> {}, affected |-> {}, inv |-> 0, result |-> {},
   hit |-> FALSE, outcome |-> "none", mustSee |-> {}, expect |-> "none",
   before |-> "none", invFailed |-> FALSE, enqFailed |-> FALSE]

\* an array that names each id of a set once
RECURSIVE ListOf(_)
ListOf(S) ==
  IF S = {} THEN <<>>
  ELSE LET x == CHOOSE y \in S : TRUE IN <<x>> \o ListOf(S \ {x})

\* the call is between its first and its last step
Running(q) == ops[q].pc \notin {"idle", "done"}

\* the calls arrive in the order of their numbers
Arrives(p) == ops[p].pc = "idle" /\ \A q \in TaskOps : q < p => ops[q].pc # "idle"

\* the ids a caller may name: those of the tasks earlier calls could have created
KnownIds(p) == {TaskIdOf(q) : q \in {r \in TaskOps : r < p}}

\* the tasks of user u whose create has returned
Created(u) ==
  {ops[q].taskId : q \in {r \in TaskOps : ops[r].kind = "create" /\ ops[r].userId = u
                                       /\ ops[r].pc = "done" /\ ops[r].outcome = "ok"}}

\* the calls that write to the store
Mutations == {"create", "update", "remove", "batch"}

\* call q may write to task id
Touches(q, id) ==
  ops[q].kind = "batch" \/ (ops[q].kind \in {"update", "remove"} /\ ops[q].taskId = id)

\* the status a read of task id is to show: that of the store, when the last
\* call that was made on the task is an update that has returned and no call
\* is running
Expected(id) ==
  LET on == {q \in TaskOps : Touches(q, id)} IN
  IF /\ on # {}
     /\ \A q \in TaskOps : ~Running(q)
     /\ id \in DOMAIN db
     /\ LET last == CHOOSE q \in on : \A r \in on : r <= q IN
          ops[last].kind = "update" /\ ops[last].outcome = "ok"
  THEN db[id].status
  ELSE "none"

\* the call ends: its locals are gone, its arguments, transaction and result stay
OpDone(p, outcome, tx, result) ==
  [ops EXCEPT ![p] = [OpIdle EXCEPT !.pc = "done", !.kind = ops[p].kind,
                                   !.userId = ops[p].userId,
                                   !.taskId = ops[p].taskId,
                                   !.ids = ops[p].ids, !.idList = ops[p].idList,
                                   !.tx = tx,
                                   !.outcome = outcome, !.result = result,
                                   !.failed = ops[p].failed,
                                   !.hit = ops[p].hit, !.mustSee = ops[p].mustSee,
                                   !.expect = ops[p].expect,
                                   !.before = ops[p].before,
                                   !.invFailed = ops[p].invFailed,
                                   !.enqFailed = ops[p].enqFailed]]

\* create(createTaskDto, userId): dataSource.transaction opens the transaction
CreateCall(p, u) ==
  /\ Arrives(p)
  /\ ops' = [ops EXCEPT ![p] = [OpIdle EXCEPT !.pc = "save", !.kind = "create",
                                             !.userId = u, !.taskId = TaskIdOf(p),
                                             !.status = StatusPending, !.tx = "open"]]
  /\ UNCHANGED <<now, redis, errors, db, timers, queue, faults, notTasks>>

\* update(id, { title }, userId): the dto names no status
UpdateTitleCall(p, id, title) ==
  /\ Arrives(p)
  /\ ops' = [ops EXCEPT ![p] = [OpIdle EXCEPT !.pc = "fo_get", !.kind = "update",
                                             !.userId = TaskUser, !.taskId = id, !.title = title,
                                             !.tx = "open"]]
  /\ UNCHANGED <<now, redis, errors, db, timers, queue, faults, notTasks>>

\* update(id, { status }, userId)
UpdateCall(p, id, status) ==
  /\ Arrives(p)
  /\ ops' = [ops EXCEPT ![p] = [OpIdle EXCEPT !.pc = "fo_get", !.kind = "update",
                                             !.userId = TaskUser, !.taskId = id, !.status = status,
                                             !.tx = "open"]]
  /\ UNCHANGED <<now, redis, errors, db, timers, queue, faults, notTasks>>

\* remove(id, userId)
RemoveCall(p, id) ==
  /\ Arrives(p)
  /\ ops' = [ops EXCEPT ![p] = [OpIdle EXCEPT !.pc = "fo_get", !.kind = "remove",
                                             !.userId = TaskUser, !.taskId = id, !.tx = "open"]]
  /\ UNCHANGED <<now, redis, errors, db, timers, queue, faults, notTasks>>

\* batchUpdate(taskIds, { status }, userId)
BatchCall(p, taskIds, status) ==
  /\ Arrives(p)
  /\ taskIds # {}
  /\ ops' = [ops EXCEPT ![p] = [OpIdle EXCEPT !.pc = "b_query", !.kind = "batch",
                                             !.userId = TaskUser, !.ids = taskIds,
                                             !.idList = ListOf(taskIds),
                                             !.status = status, !.tx = "open"]]
  /\ UNCHANGED <<now, redis, errors, db, timers, queue, faults, notTasks>>

\* batchUpdate(taskIds, { status }, userId) with the array as it is given, which
\* may name an id more than once; ids holds the ids the array names
BatchListCall(p, taskIds, status) ==
  /\ Arrives(p)
  /\ taskIds # <<>>
  /\ ops' = [ops EXCEPT ![p] = [OpIdle EXCEPT !.pc = "b_query", !.kind = "batch",
                                             !.userId = TaskUser,
                                             !.ids = {taskIds[i] : i \in DOMAIN taskIds},
                                             !.idList = taskIds,
                                             !.status = status, !.tx = "open"]]
  /\ UNCHANGED <<now, redis, errors, db, timers, queue, faults, notTasks>>

\* findAll({ pagination, filters, userId, includeUser }); mustSee records the
\* tasks whose create had returned when the call was made
FindAllCall(p) ==
  /\ Arrives(p)
  /\ ops' = [ops EXCEPT ![p] = [OpIdle EXCEPT !.pc = "fa_get", !.kind = "findAll",
                                             !.userId = TaskUser,
                                             !.mustSee = Created(TaskUser)]]
  /\ UNCHANGED <<now, redis, errors, db, timers, queue, faults, notTasks>>

\* getStatistics(userId)
GetStatisticsCall(p) ==
  /\ Arrives(p)
  /\ ops' = [ops EXCEPT ![p] = [OpIdle EXCEPT !.pc = "gs_get", !.kind = "statistics",
                                             !.userId = TaskUser]]
  /\ UNCHANGED <<now, redis, errors, db, timers, queue, faults, notTasks>>

\* findOne(id, userId); expect records the status the call is to show
FindOneCall(p, u, id) ==
  /\ Arrives(p)
  /\ ops' = [ops EXCEPT ![p] = [OpIdle EXCEPT !.pc = "fo_get", !.kind = "findOne",
                                             !.userId = u, !.taskId = id,
                                             !.expect = Expected(id)]]
  /\ UNCHANGED <<now, redis, errors, db, timers, queue, faults, notTasks>>

-----------------------------------------------------------------------------
(* TasksService.findOne, called directly or by update and remove *)

\* the transaction of the call once an exception has left it: update and remove
\* run findOne in the transaction callback, and the transaction is rolled back
TxAfterThrow(p) == IF ops[p].kind = "findOne" THEN "none" ELSE "rolledback"

\* a findOne that ignores the owner of a cached task
ForeignIgnored(task, userId) == FALSE

\* findOne on a cached task: userId && cached.userId !== userId
Foreign(task, userId) == task.userId # userId

\* findOne returns task: a direct call returns it, update and remove go on
FoundTask(p, task, hit) ==
  IF ops[p].kind = "findOne"
  THEN [OpDone(p, "ok", "none", {task}) EXCEPT ![p].hit = hit]
  ELSE [ops EXCEPT ![p].task = task, ![p].hit = hit, ![p].pc = "save"]

\* findOne: cacheService.get(`task:${id}`, 'tasks').  A cached task of another
\* user is a ResourceNotFoundException
FoGet(p) ==
  LET k == CacheKey(TaskKey(ops[p].taskId), "tasks") IN
  /\ ops[p].pc = "fo_get"
  /\ ops' = IF k \notin DOMAIN redis
            THEN [ops EXCEPT ![p].pc = "fo_read"]
            ELSE IF Foreign(redis[k].val, ops[p].userId)
                 THEN [OpDone(p, "notfound", TxAfterThrow(p), {}) EXCEPT ![p].hit = TRUE]
                 ELSE FoundTask(p, redis[k].val, TRUE)
  /\ UNCHANGED <<now, redis, errors, db, timers, queue, faults, notTasks>>

\* the read fails: CacheService.get returns null, a miss
FoGetFails(p) ==
  /\ ops[p].pc = "fo_get"
  /\ CanFail
  /\ errors' = errors + 1
  /\ ops' = [ops EXCEPT ![p].pc = "fo_read"]
  /\ UNCHANGED <<now, redis, db, timers, queue, faults, notTasks>>

\* findOne: the query on this.tasksRepository, outside the transaction: it sees
\* the committed rows, filtered by task.userId = :userId.  No row:
\* ResourceNotFoundException
FoRead(p) ==
  LET id == ops[p].taskId IN
  /\ ops[p].pc = "fo_read"
  /\ ops' = IF id \in DOMAIN db /\ db[id].userId = ops[p].userId
            THEN [ops EXCEPT ![p].task = db[id], ![p].pc = "fo_set"]
            ELSE OpDone(p, "notfound", TxAfterThrow(p), {})
  /\ UNCHANGED <<now, redis, errors, db, timers, queue, faults, notTasks>>

\* findOne: cacheService.set(cacheKey, task, { ttl: 600, namespace: 'tasks' })
FoSet(p) ==
  /\ ops[p].pc = "fo_set"
  /\ redis' = RedisSetEx(redis, CacheKey(TaskKey(ops[p].taskId), "tasks"), TaskTtl,
                         ops[p].task)
  /\ ops' = FoundTask(p, ops[p].task, FALSE)
  /\ UNCHANGED <<now, errors, db, timers, queue, faults, notTasks>>

\* the set fails: a DatabaseException leaves findOne
FoSetFails(p) ==
  /\ ops[p].pc = "fo_set"
  /\ CanFail
  /\ errors' = errors + 1
  /\ ops' = OpDone(p, "error", TxAfterThrow(p), {})
  /\ UNCHANGED <<now, redis, db, timers, queue, faults, notTasks>>

-----------------------------------------------------------------------------
(* create, update, remove: the write in the transaction and setImmediate *)

\* no other open transaction holds a write on one of the rows ids
RowsFree(p, ids) ==
  \A q \in TaskOps \ {p} : ops[q].tx = "open" => DOMAIN ops[q].writes \cap ids = {}

\* taskRepository.merge(existingTask, updateTaskDto): the fields the dto names
\* replace those of the task findOne returned
Merge(task, status, title) ==
  [task EXCEPT !.status = IF status = "none" THEN @ ELSE status,
               !.title = IF title = "none" THEN @ ELSE title]

\* the row taskRepository.save or remove is called with
WrittenRow(p) ==
  IF ops[p].kind = "create"
  THEN [id |-> ops[p].taskId, userId |-> ops[p].userId, status |-> ops[p].status,
        title |-> TitleGiven]
  ELSE IF ops[p].kind = "update" THEN Merge(ops[p].task, ops[p].status, ops[p].title)
  ELSE ops[p].task

\* the job the call hands to setImmediate; that of update carries
\* oldStatus: originalStatus, the status of the task findOne returned, and
\* newStatus: savedTask.status
EventOf(p, ids) ==
  [name |-> IF ops[p].kind = "create" THEN "task-created"
            ELSE IF ops[p].kind = "update" THEN "task-status-updated"
            ELSE IF ops[p].kind = "remove" THEN "task-deleted"
            ELSE "tasks-batch-updated",
   op |-> p, taskIds |-> ids, userId |-> ops[p].userId, attemptsMade |-> 0, delay |-> 0,
   oldStatus |-> IF ops[p].kind = "update" THEN ops[p].task.status ELSE "none",
   newStatus |-> IF ops[p].kind = "update" THEN WrittenRow(p).status ELSE "none"]

\* whether the call schedules its job: update only when the status changed
Schedules(p, row) == ops[p].kind = "update" => ops[p].task.status # row.status

\* taskRepository.save(task) / remove(task) in the transaction, setImmediate(...)
\* and the call of invalidateTaskCache, up to its first await; before records
\* the status the store holds for the task when it is written
Save(p) ==
  LET row == WrittenRow(p) IN
  /\ ops[p].pc = "save"
  /\ RowsFree(p, {row.id})
  /\ ops' = [ops EXCEPT ![p].writes = [i \in {row.id} |->
                                         [row |-> row, live |-> ops[p].kind # "remove"]],
                        ![p].affected = {row.userId},
                        ![p].inv = 1,
                        ![p].before = IF row.id \in DOMAIN db THEN db[row.id].status
                                      ELSE "none",
                        ![p].pc = "inv"]
  /\ timers' = IF Schedules(p, row) THEN timers \cup {EventOf(p, {row.id})} ELSE timers
  /\ UNCHANGED <<now, redis, errors, db, queue, faults, notTasks>>

\* the write fails: a DatabaseException leaves the callback, the transaction is
\* rolled back
SaveFails(p) ==
  /\ ops[p].pc = "save"
  /\ CanFault
  /\ faults' = faults + 1
  /\ ops' = OpDone(p, "error", "rolledback", {})
  /\ UNCHANGED <<now, redis, errors, db, timers, queue, notTasks>>

-----------------------------------------------------------------------------
(* batchUpdate *)

\* a query that leaves out the filter on the owner
ExistingTasksOfAnyUser(p) == ops[p].ids \cap DOMAIN db

\* queryBuilder.where('task.id IN (:...taskIds)').andWhere('task.userId = :userId')
ExistingTasks(p) == {i \in ops[p].ids \cap DOMAIN db : db[i].userId = ops[p].userId}

\* the query in the transaction for the tasks of the caller among taskIds; the
\* ids it did not find are reported as failed
BQuery(p) ==
  LET ids == ExistingTasks(p) IN
  /\ ops[p].pc = "b_query"
  /\ ops' = [ops EXCEPT ![p].found = ids,
                        ![p].failed = ops[p].ids \ ids,
                        ![p].pc = IF ids = {} THEN "commit" ELSE "b_update"]
  /\ UNCHANGED <<now, redis, errors, db, timers, queue, faults, notTasks>>

\* taskRepository.update({ id: In(foundTaskIds) }, updateData), the find that
\* reads the rows back, setImmediate(...) and the first invalidateTaskCache
BUpdate(p) ==
  LET ids == ops[p].found \cap DOMAIN db IN
  /\ ops[p].pc = "b_update"
  /\ RowsFree(p, ids)
  /\ ops' = [ops EXCEPT ![p].writes = [i \in ids |->
                                         [row |-> [db[i] EXCEPT !.status = ops[p].status],
                                          live |-> TRUE]],
                        ![p].affected = {db[i].userId : i \in ids},
                        ![p].inv = IF ids = {} THEN 0 ELSE 1,
                        ![p].pc = IF ids = {} THEN "commit" ELSE "inv"]
  /\ timers' = timers \cup {EventOf(p, ops[p].found)}
  /\ UNCHANGED <<now, redis, errors, db, queue, faults, notTasks>>

-----------------------------------------------------------------------------
(* invalidateTaskCache, the end of the transaction, the queue *)

\* the user whose caches the running invalidateTaskCache is called for
InvUser(p) == CHOOSE u \in ops[p].affected : TRUE

\* where the call goes when invalidateTaskCache has returned: update and remove
\* leave the callback, batchUpdate goes to the next affected user
AfterInvalidate(p) ==
  IF ops[p].affected \ {InvUser(p)} = {}
  THEN [ops EXCEPT ![p].affected = {}, ![p].inv = 0, ![p].pc = "commit"]
  ELSE [ops EXCEPT ![p].affected = @ \ {InvUser(p)}, ![p].inv = 1]

\* invalidateTaskCache: the next of its four cacheService.delPattern(..., 'tasks')
InvPattern(p) ==
  /\ ops[p].pc = "inv"
  /\ redis' = CacheDelPattern(redis, InvPatterns(InvUser(p))[ops[p].inv], "tasks")
  /\ ops' = IF ops[p].inv < Len(InvPatterns(InvUser(p)))
            THEN [ops EXCEPT ![p].inv = @ + 1]
            ELSE IF ops[p].kind \in {"update", "remove"}
                 THEN [ops EXCEPT ![p].pc = "inv_task"]
                 ELSE AfterInvalidate(p)
  /\ UNCHANGED <<now, errors, db, timers, queue, faults, notTasks>>

\* invalidateTaskCache: cacheService.del(`task:${taskId}`, 'tasks')
InvTask(p) ==
  /\ ops[p].pc = "inv_task"
  /\ redis' = RedisDel(redis, {CacheKey(TaskKey(ops[p].taskId), "tasks")})
  /\ ops' = AfterInvalidate(p)
  /\ UNCHANGED <<now, errors, db, timers, queue, faults, notTasks>>

\* an invalidateTaskCache that lets the error out: the callback throws
InvalidationThrown(p) == OpDone(p, "error", "rolledback", {})

\* invalidateTaskCache catches the error, logs a warning and returns
InvalidationCaught(p) == AfterInvalidate(p)

\* a delPattern or the del fails; invFailed records it
InvFails(p) ==
  /\ ops[p].pc \in {"inv", "inv_task"}
  /\ CanFail
  /\ errors' = errors + 1
  /\ ops' = [InvalidationCaught(p) EXCEPT ![p].invFailed = TRUE]
  /\ UNCHANGED <<now, redis, db, timers, queue, faults, notTasks>>

\* what the call returns: the saved task, nothing, or the tasks updated
Returns(p) ==
  IF ops[p].kind = "remove" THEN {}
  ELSE {ops[p].writes[i].row : i \in DOMAIN ops[p].writes}

\* notFoundTaskIds = taskIds.filter(id => !foundTaskIds.includes(id)): one entry
\* of results.failed for each
NotFoundTaskIds(p) ==
  LET Missing(id) == id \in ops[p].failed IN SelectSeq(ops[p].idList, Missing)

\* results.summary of a batchUpdate that has returned
Summary(p) ==
  [total |-> Len(ops[p].idList),
   successful |-> Cardinality(ops[p].result),
   failed |-> Len(NotFoundTaskIds(p))]

\* the callback has returned: dataSource.transaction commits, the call returns
Commit(p) ==
  /\ ops[p].pc = "commit"
  /\ db' = Committed(db, ops[p].writes)
  /\ ops' = OpDone(p, "ok", "committed", Returns(p))
  /\ UNCHANGED <<now, redis, errors, timers, queue, faults, notTasks>>

\* the commit fails: the transaction is rolled back, the call throws
CommitFails(p) ==
  /\ ops[p].pc = "commit"
  /\ CanFault
  /\ faults' = faults + 1
  /\ ops' = OpDone(p, "error", "rolledback", {})
  /\ UNCHANGED <<now, redis, errors, db, timers, queue, notTasks>>

\* a setImmediate callback runs: taskQueue.add(name, data)
QueueAdd(e) ==
  /\ e \in timers
  /\ timers' = timers \ {e}
  /\ queue' = Append(queue, e)
  /\ UNCHANGED <<now, redis, errors, db, ops, faults, notTasks>>

\* taskQueue.add fails: the callback logs the error and ends; enqFailed records it
QueueAddFails(e) ==
  /\ e \in timers
  /\ CanFault
  /\ faults' = faults + 1
  /\ timers' = timers \ {e}
  /\ ops' = [ops EXCEPT ![e.op].enqFailed = TRUE]
  /\ UNCHANGED <<now, redis, errors, db, queue, notTasks>>

-----------------------------------------------------------------------------
(* TasksService.findAll *)

\* cacheService.get(cacheKey, 'tasks'): a hit is returned as it is
FaGet(p) ==
  LET k == CacheKey(ListKey, "tasks") IN
  /\ ops[p].pc = "fa_get"
  /\ ops' = IF k \in DOMAIN redis
            THEN [OpDone(p, "ok", "none", redis[k].val) EXCEPT ![p].hit = TRUE]
            ELSE [ops EXCEPT ![p].pc = "fa_read"]
  /\ UNCHANGED <<now, redis, errors, db, timers, queue, faults, notTasks>>

\* the read fails: CacheService.get returns null, a miss
FaGetFails(p) ==
  /\ ops[p].pc = "fa_get"
  /\ CanFail
  /\ errors' = errors + 1
  /\ ops' = [ops EXCEPT ![p].pc = "fa_read"]
  /\ UNCHANGED <<now, redis, db, timers, queue, faults, notTasks>>

\* queryBuilder.getManyAndCount() on this.tasksRepository: the committed rows
FaRead(p) ==
  /\ ops[p].pc = "fa_read"
  /\ ops' = [ops EXCEPT ![p].found = RowsOf(db, ops[p].userId), ![p].pc = "fa_set"]
  /\ UNCHANGED <<now, redis, errors, db, timers, queue, faults, notTasks>>

\* cacheService.set(cacheKey, result, { ttl: 300, namespace: 'tasks' })
FaSet(p) ==
  /\ ops[p].pc = "fa_set"
  /\ redis' = RedisSetEx(redis, CacheKey(ListKey, "tasks"), ListTtl, ops[p].found)
  /\ ops' = OpDone(p, "ok", "none", ops[p].found)
  /\ UNCHANGED <<now, errors, db, timers, queue, faults, notTasks>>

\* the set fails: findAll throws a DatabaseException
FaSetFails(p) ==
  /\ ops[p].pc = "fa_set"
  /\ CanFail
  /\ errors' = errors + 1
  /\ ops' = OpDone(p, "error", "none", {})
  /\ UNCHANGED <<now, redis, db, timers, queue, faults, notTasks>>

-----------------------------------------------------------------------------
(* TasksService.getStatistics *)

\* the statistics of the rows of userId in store d: total and byStatus
Statistics(d, userId) ==
  [total |-> Cardinality(RowsOf(d, userId)),
   byStatus |-> [st \in Statuses |->
                   Cardinality({r \in RowsOf(d, userId) : r.status = st})]]

\* cacheService.get(cacheKey, 'tasks'): a hit is returned as it is
GsGet(p) ==
  LET k == CacheKey(StatisticsKey(ops[p].userId), "tasks") IN
  /\ ops[p].pc = "gs_get"
  /\ ops' = IF k \in DOMAIN redis
            THEN [OpDone(p, "ok", "none", {redis[k].val}) EXCEPT ![p].hit = TRUE]
            ELSE [ops EXCEPT ![p].pc = "gs_read"]
  /\ UNCHANGED <<now, redis, errors, db, timers, queue, faults, notTasks>>

\* the read fails: CacheService.get returns null, a miss
GsGetFails(p) ==
  /\ ops[p].pc = "gs_get"
  /\ CanFail
  /\ errors' = errors + 1
  /\ ops' = [ops EXCEPT ![p].pc = "gs_read"]
  /\ UNCHANGED <<now, redis, db, timers, queue, faults, notTasks>>

\* the counts, queried on this.tasksRepository: the committed rows, when no
\* commit falls between the queries of Promise.all
GsRead(p) ==
  /\ ops[p].pc = "gs_read"
  /\ ops' = [ops EXCEPT ![p].found = {Statistics(db, ops[p].userId)}, ![p].pc = "gs_set"]
  /\ UNCHANGED <<now, redis, errors, db, timers, queue, faults, notTasks>>

\* a set of the statistics without a ttl: CacheService.set takes the default
GsSetDefaultTtl(p) ==
  /\ ops[p].pc = "gs_set"
  /\ redis' = CacheSet(redis, StatisticsKey(ops[p].userId), "tasks", <<>>,
                       CHOOSE s \in ops[p].found : TRUE)
  /\ ops' = OpDone(p, "ok", "none", ops[p].found)
  /\ UNCHANGED <<now, errors, db, timers, queue, faults, notTasks>>

\* cacheService.set(cacheKey, statistics, { ttl: 900, namespace: 'tasks' })
GsSet(p) ==
  /\ ops[p].pc = "gs_set"
  /\ redis' = RedisSetEx(redis, CacheKey(StatisticsKey(ops[p].userId), "tasks"),
                         StatisticsTtl, CHOOSE s \in ops[p].found : TRUE)
  /\ ops' = OpDone(p, "ok", "none", ops[p].found)
  /\ UNCHANGED <<now, errors, db, timers, queue, faults, notTasks>>

\* the set fails: getStatistics throws a DatabaseException
GsSetFails(p) ==
  /\ ops[p].pc = "gs_set"
  /\ CanFail
  /\ errors' = errors + 1
  /\ ops' = OpDone(p, "error", "none", {})
  /\ UNCHANGED <<now, redis, db, timers, queue, faults, notTasks>>

\* the queries of Promise.all are independent: the first of getCount and
\* getStatusCounts to be answered sees the committed rows of that moment
GsReadOne(p) ==
  /\ ops[p].pc = "gs_read"
  /\ ops' = [ops EXCEPT ![p].found = {Statistics(db, ops[p].userId)}, ![p].pc = "gs_read_rest"]
  /\ UNCHANGED <<now, redis, errors, db, timers, queue, faults, notTasks>>

\* the other query is answered, on the rows committed by then; the two answers
\* are merged into one TaskStatistics
GsReadRest(p) ==
  LET one == CHOOSE s \in ops[p].found : TRUE
      rest == Statistics(db, ops[p].userId) IN
  /\ ops[p].pc = "gs_read_rest"
  /\ \E first \in {"total", "byStatus"} :
       ops' = [ops EXCEPT ![p].found =
                            {IF first = "total"
                             THEN [total |-> one.total, byStatus |-> rest.byStatus]
                             ELSE [total |-> rest.total, byStatus |-> one.byStatus]},
                          ![p].pc = "gs_set"]
  /\ UNCHANGED <<now, redis, errors, db, timers, queue, faults, notTasks>>

\* the steps of getStatistics
StatisticsStep(p) ==
  \/ GsGet(p) \/ GsGetFails(p)
  \/ GsRead(p)
  \/ GsSet(p) \/ GsSetFails(p)

\* the clock of the view specifications advances by the ttl of a list, up to
\* the ttl of the statistics
ViewTick ==
  /\ now < StatisticsTtl * MsPerSecond
  /\ now' = now + TaskTickMs
  /\ redis' = Purge(redis, now')
  /\ UNCHANGED <<errors, db, ops, timers, queue, faults, notTasks>>

\* the clock advances and the server drops what has expired
TaskTick ==
  /\ now < TaskHorizonMs
  /\ now' = now + TaskTickMs
  /\ redis' = Purge(redis, now')
  /\ UNCHANGED <<errors, db, ops, timers, queue, faults, notTasks>>

TaskStep(p) ==
  \/ FoGet(p) \/ FoGetFails(p)
  \/ FoRead(p)
  \/ FoSet(p) \/ FoSetFails(p)
  \/ Save(p) \/ SaveFails(p)
  \/ BQuery(p) \/ BUpdate(p)
  \/ InvPattern(p) \/ InvTask(p) \/ InvFails(p)
  \/ Commit(p) \/ CommitFails(p)
  \/ FaGet(p) \/ FaGetFails(p)
  \/ FaRead(p)
  \/ FaSet(p) \/ FaSetFails(p)

\* a call is made
TaskCall(p) ==
  \/ \E u \in TaskOwners : CreateCall(p, u)
  \/ FindAllCall(p)
  \/ \E id \in KnownIds(p) : FindOneCall(p, TaskUser, id)
  \/ \E id \in KnownIds(p), st \in Statuses : UpdateCall(p, id, st)
  \/ \E id \in KnownIds(p) : RemoveCall(p, id)
  \/ \E st \in Statuses : BatchCall(p, KnownIds(p), st)

\* a call that is made when no other call is running
TaskCallAlone(p) ==
  /\ \A q \in TaskOps : ~Running(q)
  /\ TaskCall(p)

\* the tasks a store holds when the service starts on it: one of each user
SeedIds == {"s1", "s2"}
SeedOwner(id) == IF id = "s1" THEN "u1" ELSE "u2"
Seed ==
  [i \in SeedIds |->
     [id |-> i, userId |-> SeedOwner(i), status |-> StatusPending, title |-> TitleGiven]]

\* the task of the followed user among them
OwnSeedIds == {i \in SeedIds : SeedOwner(i) = TaskUser}

\* a call is made on a store that held tasks at the start: the reads, by one of
\* users, and the mutations name one of the tasks ids, a batch names the tasks
\* the store held and the ids of earlier calls
TaskCallOn(p, users, ids) ==
  \/ CreateCall(p, TaskUser)
  \/ FindAllCall(p)
  \/ \E u \in users, id \in ids : FindOneCall(p, u, id)
  \/ \E id \in ids, st \in Statuses : UpdateCall(p, id, st)
  \/ \E id \in ids : RemoveCall(p, id)
  \/ \E st \in Statuses : BatchCall(p, SeedIds \cup KnownIds(p), st)

\* the followed user reads or updates its own task
ReadWriteCall(p) ==
  \/ \E id \in OwnSeedIds : FindOneCall(p, TaskUser, id)
  \/ \E id \in OwnSeedIds, st \in Statuses : UpdateCall(p, id, st)

\* the steps of findOne and update
ReadWriteStep(p) ==
  \/ FoGet(p) \/ FoGetFails(p)
  \/ FoRead(p)
  \/ FoSet(p) \/ FoSetFails(p)
  \/ Save(p) \/ SaveFails(p)
  \/ InvPattern(p) \/ InvTask(p) \/ InvFails(p)
  \/ Commit(p) \/ CommitFails(p)

\* calls of both users on both tasks, made when no other call is running
TaskCallSeededAlone(p) ==
  /\ \A q \in TaskOps : ~Running(q)
  /\ TaskCallOn(p, TaskOwners, SeedIds)

\* a setImmediate callback runs
TimerStep(e) == QueueAdd(e) \/ QueueAddFails(e)

NextTasks ==
  \/ \E p \in TaskOps : TaskCall(p)
  \/ \E p \in TaskOps : TaskStep(p)
  \/ \E e \in timers : TimerStep(e)
  \/ TaskTick

NextTasksSeq ==
  \/ \E p \in TaskOps : TaskCallAlone(p)
  \/ \E p \in TaskOps : TaskStep(p)
  \/ \E e \in timers : TimerStep(e)
  \/ TaskTick

NextStore ==
  \/ \E p \in TaskOps : ReadWriteCall(p)
  \/ \E p \in TaskOps : ReadWriteStep(p)
  \/ \E e \in timers : TimerStep(e)

NextStoreSeq ==
  \/ \E p \in TaskOps : TaskCallSeededAlone(p)
  \/ \E p \in TaskOps : TaskStep(p)
  \/ \E e \in timers : TimerStep(e)

\* the followed user creates a task or updates a batch of ids, when no call is
\* running: the tasks the store held with the ids of earlier calls, or only the
\* tasks of other users
BatchSeqCall(p) ==
  /\ \A q \in TaskOps : ~Running(q)
  /\ \/ CreateCall(p, TaskUser)
     \/ \E ids \in {SeedIds \cup KnownIds(p), SeedIds \ OwnSeedIds}, st \in Statuses :
          BatchCall(p, ids, st)

\* the steps of create and batchUpdate
BatchStep(p) ==
  \/ Save(p) \/ SaveFails(p)
  \/ BQuery(p) \/ BUpdate(p)
  \/ InvPattern(p) \/ InvFails(p)
  \/ Commit(p) \/ CommitFails(p)

\* the followed user reads a view or changes its tasks
ViewCall(p) ==
  \/ FindAllCall(p)
  \/ GetStatisticsCall(p)
  \/ \E id \in OwnSeedIds : FindOneCall(p, TaskUser, id)
  \/ CreateCall(p, TaskUser)
  \/ \E id \in OwnSeedIds : UpdateCall(p, id, "COMPLETED")
  \/ \E id \in OwnSeedIds : RemoveCall(p, id)
  \/ BatchCall(p, SeedIds, "COMPLETED")

\* such a call, made when no other call is running
ViewCallAlone(p) ==
  /\ \A q \in TaskOps : ~Running(q)
  /\ ViewCall(p)

NextViewsSeq ==
  \/ \E p \in TaskOps : ViewCallAlone(p)
  \/ \E p \in TaskOps : TaskStep(p)
  \/ \E p \in TaskOps : StatisticsStep(p)
  \/ \E e \in timers : TimerStep(e)
  \/ ViewTick

\* the followed user, when no call is running, reads one of the three views or
\* completes its task
StalenessCall(p) ==
  /\ \A q \in TaskOps : ~Running(q)
  /\ \/ FindAllCall(p)
     \/ GetStatisticsCall(p)
     \/ \E id \in OwnSeedIds : FindOneCall(p, TaskUser, id)
     \/ \E id \in OwnSeedIds : UpdateCall(p, id, "COMPLETED")

\* the steps of findAll
FindAllStep(p) ==
  \/ FaGet(p) \/ FaGetFails(p)
  \/ FaRead(p)
  \/ FaSet(p) \/ FaSetFails(p)

NextStaleness ==
  \/ \E p \in TaskOps : StalenessCall(p)
  \/ \E p \in TaskOps : ReadWriteStep(p)
  \/ \E p \in TaskOps : FindAllStep(p)
  \/ \E p \in TaskOps : StatisticsStep(p)
  \/ \E e \in timers : TimerStep(e)
  \/ ViewTick

\* the followed user, when no call is running, looks its task up, completes it
\* in a batch, or updates its title or its status
FieldCall(p) ==
  /\ \A q \in TaskOps : ~Running(q)
  /\ \/ \E id \in OwnSeedIds : FindOneCall(p, TaskUser, id)
     \/ BatchCall(p, OwnSeedIds, "COMPLETED")
     \/ \E id \in OwnSeedIds, t \in Titles : UpdateTitleCall(p, id, t)
     \/ \E id \in OwnSeedIds, st \in Statuses : UpdateCall(p, id, st)

\* the steps of findOne, update and batchUpdate
FieldStep(p) ==
  \/ ReadWriteStep(p)
  \/ BQuery(p) \/ BUpdate(p)

NextFieldsSeq ==
  \/ \E p \in TaskOps : FieldCall(p)
  \/ \E p \in TaskOps : FieldStep(p)
  \/ \E e \in timers : TimerStep(e)

\* a user looks a task up, the followed user completes or removes a task: the
\* task is its own or that of the other user
LookupCall(p) ==
  \/ \E u \in TaskOwners, id \in SeedIds : FindOneCall(p, u, id)
  \/ \E id \in SeedIds : UpdateCall(p, id, "COMPLETED")
  \/ \E id \in SeedIds : RemoveCall(p, id)

NextLookups ==
  \/ \E p \in TaskOps : LookupCall(p)
  \/ \E p \in TaskOps : ReadWriteStep(p)
  \/ \E e \in timers : TimerStep(e)

\* the followed user creates a task, completes or removes its task, or completes
\* a batch, while at most one other call is running
MutationCall(p) ==
  /\ Cardinality({q \in TaskOps : Running(q)}) < 2
  /\ \/ CreateCall(p, TaskUser)
     \/ \E id \in OwnSeedIds : UpdateCall(p, id, "COMPLETED")
     \/ \E id \in OwnSeedIds : RemoveCall(p, id)
     \/ BatchCall(p, SeedIds, "COMPLETED")

\* the steps of create, update, remove and batchUpdate
MutationStep(p) ==
  \/ FoGet(p) \/ FoGetFails(p)
  \/ FoRead(p)
  \/ FoSet(p) \/ FoSetFails(p)
  \/ Save(p) \/ SaveFails(p)
  \/ BQuery(p) \/ BUpdate(p)
  \/ InvPattern(p) \/ InvTask(p) \/ InvFails(p)
  \/ Commit(p) \/ CommitFails(p)

NextMutations ==
  \/ \E p \in TaskOps : MutationCall(p)
  \/ \E p \in TaskOps : MutationStep(p)
  \/ \E e \in timers : TimerStep(e)

NextBatchSeq ==
  \/ \E p \in TaskOps : BatchSeqCall(p)
  \/ \E p \in TaskOps : BatchStep(p)
  \/ \E e \in timers : TimerStep(e)

-----------------------------------------------------------------------------
(* TaskProcessorService, the consumer of the 'task-processing' queue, and the
   jobs OverdueTasksService adds to the same queue *)

\* defaultJobOptions.attempts
JobAttempts == 3
\* defaultJobOptions.backoff.delay, in milliseconds
BackoffDelay == 2000
\* backoff type 'exponential': the delay before the attempt that follows the
\* attemptsMade-th failure
Backoff(attemptsMade) == 2 ^ (attemptsMade - 1) * BackoffDelay
\* the ttl of user_stats, in seconds
StatsTtl == 3600
\* new Date().toISOString().slice(0, 7)
Month == "2026-11"

NoJob ==
  [name |-> "none", op |-> 0, taskIds |-> {}, userId |-> "none", attemptsMade |-> 0,
   delay |-> 0, oldStatus |-> "none", newStatus |-> "none"]

\* peer: the job a second instance of the application is processing
PeerIdle == [pc |-> "idle", job |-> NoJob]

WorkerIdle ==
  [pc |-> "idle", job |-> NoJob, total |-> 0, completed |-> 0, failed |-> 0, sweeps |-> 0,
   peer |-> PeerIdle]

\* the names of the jobs the sweeps add
SweepJobs == {"task-overdue", "task-archive"}

\* OverdueTasksService: taskQueue.add('task-overdue' / 'task-archive', ...)
SweepAdd(name) ==
  /\ worker.sweeps < MaxSweepJobs
  /\ queue' = Append(queue, [NoJob EXCEPT !.name = name])
  /\ worker' = [worker EXCEPT !.sweeps = @ + 1]
  /\ UNCHANGED <<now, redis, errors, db, faults, notWorker>>

\* process: the switch on the name of the job
Handler(name) ==
  IF name \in {"task-created", "tasks-batch-updated"} THEN "count_all"
  ELSE IF name = "task-status-updated" THEN "incr_new"
  ELSE IF name = "task-deleted" THEN "cleanup"
  ELSE "unknown"

\* the task of a job on one task
JobTask == CHOOSE id \in worker.job.taskIds : TRUE

\* the worker takes the oldest job
WTake ==
  /\ worker.pc = "idle"
  /\ queue # <<>>
  /\ worker' = [worker EXCEPT !.pc = Handler(Head(queue).name), !.job = Head(queue),
                              !.total = 0, !.completed = 0]
  /\ queue' = Tail(queue)
  /\ UNCHANGED <<now, redis, errors, db, faults, notWorker>>

\* the job is over
WEnd == [worker EXCEPT !.pc = "idle", !.job = NoJob, !.total = 0, !.completed = 0]

\* a queue that gives a failing job one attempt more than defaultJobOptions.attempts
WUnknownOneMore ==
  /\ worker.pc = "unknown"
  /\ IF worker.job.attemptsMade < JobAttempts
     THEN /\ queue' = Append(queue, [worker.job EXCEPT
                                       !.attemptsMade = @ + 1,
                                       !.delay = Backoff(worker.job.attemptsMade + 1)])
          /\ worker' = WEnd
     ELSE /\ queue' = queue
          /\ worker' = [WEnd EXCEPT !.failed = @ + 1]
  /\ UNCHANGED <<now, redis, errors, db, faults, notWorker>>

\* default: throw new QueueException: process logs and rethrows, the queue tries
\* the job again after its backoff delay until its attempts are used up, then
\* it keeps the job as failed (onFailed logs)
WUnknown ==
  /\ worker.pc = "unknown"
  /\ IF worker.job.attemptsMade + 1 < JobAttempts
     THEN /\ queue' = Append(queue, [worker.job EXCEPT
                                       !.attemptsMade = @ + 1,
                                       !.delay = Backoff(worker.job.attemptsMade + 1)])
          /\ worker' = WEnd
     ELSE /\ queue' = queue
          /\ worker' = [WEnd EXCEPT !.failed = @ + 1]
  /\ UNCHANGED <<now, redis, errors, db, faults, notWorker>>

\* a delPattern whose KEYS pattern carries the client's key prefix
DelPatternBarePrefixed(s, pattern) ==
  RedisDel(s, RedisKeys(s, Prefixed(pattern)))

\* delPattern(pattern) without a namespace: generateKey returns the pattern
DelPatternBare(s, pattern) ==
  RedisDel(s, {Prefixed(StripPrefix(k)) : k \in RedisKeys(s, pattern)})

\* the patterns of the nightly cache cleanup, in the order of the loop
CleanupPatterns == << <<"temp", "*">>, <<"session", "*">>, <<"rate_limit", "*">> >>

\* the cache after the first n delPattern calls of the cleanup
RECURSIVE CleanedUpTo(_, _)
CleanedUpTo(s, n) ==
  IF n = 0 THEN s ELSE DelPatternBare(CleanedUpTo(s, n - 1), CleanupPatterns[n])

\* OverdueTasksService.cleanupExpiredCacheEntries: the three delPattern calls;
\* the run is logged with the number of entries it cleaned
CleanupExpiredCacheEntries ==
  LET cleaned == CleanedUpTo(redis, Len(CleanupPatterns)) IN
  /\ Len(cc) < MaxSweepJobs
  /\ redis' = cleaned
  /\ cc' = Append(cc, [op |-> "cleanup", key |-> <<>>, namespace |-> "none",
                       opt |-> <<>>, at |-> now,
                       result |-> Cardinality(DOMAIN redis) - Cardinality(DOMAIN cleaned)])
  /\ UNCHANGED <<now, errors, notCallers>>

\* one of the delPattern calls throws: the cleanup logs the failure and ends
CleanupFails ==
  /\ Len(cc) < MaxSweepJobs
  /\ CanFail
  /\ errors' = errors + 1
  /\ \E n \in 1 .. Len(CleanupPatterns) : redis' = CleanedUpTo(redis, n - 1)
  /\ cc' = Append(cc, [op |-> "cleanup", key |-> <<>>, namespace |-> "none",
                       opt |-> <<>>, at |-> now, result |-> -1])
  /\ UNCHANGED <<now, notCallers>>

\* cleanupTaskRelatedData: the two delPattern calls
WCleanup ==
  /\ worker.pc \in {"cleanup", "cleanup_metrics"}
  /\ redis' = DelPatternBare(redis, <<IF worker.pc = "cleanup" THEN "task_related"
                                       ELSE "task_metrics", JobTask, "*">>)
  /\ worker' = [worker EXCEPT !.pc = IF worker.pc = "cleanup" THEN "cleanup_metrics"
                                     ELSE "count_all"]
  /\ UNCHANGED <<now, errors, db, queue, faults, notWorker>>

\* updateUserTaskStats: tasksRepository.count({ where: { userId } })
WCountAll ==
  /\ worker.pc = "count_all"
  /\ worker' = [worker EXCEPT !.total = Cardinality(RowsOf(db, worker.job.userId)),
                              !.pc = "count_completed"]
  /\ UNCHANGED <<now, redis, errors, db, queue, faults, notWorker>>

\* updateUserTaskStats: tasksRepository.count({ where: { userId, status: COMPLETED } })
WCountCompleted ==
  /\ worker.pc = "count_completed"
  /\ worker' = [worker EXCEPT
                  !.completed = Cardinality({r \in RowsOf(db, worker.job.userId) :
                                               r.status = "COMPLETED"}),
                  !.pc = "set_stats"]
  /\ UNCHANGED <<now, redis, errors, db, queue, faults, notWorker>>

\* the key of the statistics of a user, and of a month-bucketed counter
UserStatsKey(userId) == CacheKey(<<"user_stats", userId>>, "stats")
MetricsKey(userId, status) == CacheKey(<<"status_metrics", userId, status, Month>>, "metrics")
CompletionsKey(userId) == CacheKey(<<"user_completions", userId, Month>>, "metrics")

\* updateUserTaskStats: cacheService.set(`user_stats:${userId}`, ..., { ttl: 3600 })
WSetStats ==
  /\ worker.pc = "set_stats"
  /\ redis' = RedisSetEx(redis, UserStatsKey(worker.job.userId), StatsTtl,
                         [totalTasks |-> worker.total, completedTasks |-> worker.completed])
  /\ worker' = [worker EXCEPT !.pc = "invalidate"]
  /\ UNCHANGED <<now, errors, db, queue, faults, notWorker>>

\* where handleTaskStatusUpdated goes after updateTaskStatusMetrics
AfterMetrics == IF worker.job.newStatus = "COMPLETED" THEN "find_task" ELSE "invalidate"

\* updateTaskStatusMetrics: increment of the counter of the new status
WIncrNew ==
  /\ worker.pc = "incr_new"
  /\ redis' = RedisIncrBy(redis, MetricsKey(worker.job.userId, worker.job.newStatus), 1)
  /\ worker' = [worker EXCEPT !.pc = "get_old"]
  /\ UNCHANGED <<now, errors, db, queue, faults, notWorker>>

\* updateTaskStatusMetrics: the counter of the old status is read
WGetOld ==
  LET k == MetricsKey(worker.job.userId, worker.job.oldStatus) IN
  /\ worker.pc = "get_old"
  /\ worker' = [worker EXCEPT !.pc = IF k \in DOMAIN redis /\ redis[k].val > 0
                                     THEN "decr_old" ELSE AfterMetrics]
  /\ UNCHANGED <<now, redis, errors, db, queue, faults, notWorker>>

\* updateTaskStatusMetrics: increment(key, -1, 'metrics')
WDecrOld ==
  /\ worker.pc = "decr_old"
  /\ redis' = RedisIncrBy(redis, MetricsKey(worker.job.userId, worker.job.oldStatus), -1)
  /\ worker' = [worker EXCEPT !.pc = AfterMetrics]
  /\ UNCHANGED <<now, errors, db, queue, faults, notWorker>>

\* a handleTaskCompletion that marks the task in the store
TaskMarkedOnCompletion(d, id) ==
  IF id \in DOMAIN d THEN [d EXCEPT ![id].status = "COMPLETED"] ELSE d

\* handleTaskCompletion reads the task and leaves the store as it is
TaskAfterCompletion(d, id) == d

\* handleTaskCompletion: tasksRepository.findOne({ where: { id: taskId } })
WFindTask ==
  /\ worker.pc = "find_task"
  /\ db' = TaskAfterCompletion(db, JobTask)
  /\ worker' = [worker EXCEPT !.pc = IF JobTask \in DOMAIN db THEN "incr_completions"
                                     ELSE "invalidate"]
  /\ UNCHANGED <<now, redis, errors, queue, faults, notWorker>>

\* handleTaskCompletion: increment of user_completions
WIncrCompletions ==
  /\ worker.pc = "incr_completions"
  /\ redis' = RedisIncrBy(redis, CompletionsKey(worker.job.userId), 1)
  /\ worker' = [worker EXCEPT !.pc = "invalidate"]
  /\ UNCHANGED <<now, errors, db, queue, faults, notWorker>>

\* invalidateUserCaches: the three delPattern calls of Promise.all
WInvalidate ==
  LET u == worker.job.userId IN
  /\ worker.pc = "invalidate"
  /\ redis' = CacheDelPattern(
                CacheDelPattern(
                  CacheDelPattern(redis, InvPatterns(u)[1], "tasks"),
                  InvPatterns(u)[2], "tasks"),
                <<"user_stats", u>>, "stats")
  /\ worker' = WEnd
  /\ UNCHANGED <<now, errors, db, queue, faults, notWorker>>

\* a second instance of the application takes the oldest job when it is a
\* task-status-updated job
PTake ==
  /\ worker.peer.pc = "idle"
  /\ queue # <<>>
  /\ Head(queue).name = "task-status-updated"
  /\ worker' = [worker EXCEPT !.peer = [pc |-> "incr_new", job |-> Head(queue)]]
  /\ queue' = Tail(queue)
  /\ UNCHANGED <<now, redis, errors, db, faults, notWorker>>

\* where its handleTaskStatusUpdated goes after updateTaskStatusMetrics
PAfterMetrics == IF worker.peer.job.newStatus = "COMPLETED" THEN "find_task" ELSE "invalidate"

\* its updateTaskStatusMetrics: increment of the counter of the new status
PIncrNew ==
  /\ worker.peer.pc = "incr_new"
  /\ redis' = RedisIncrBy(redis, MetricsKey(worker.peer.job.userId, worker.peer.job.newStatus), 1)
  /\ worker' = [worker EXCEPT !.peer.pc = "get_old"]
  /\ UNCHANGED <<now, errors, db, queue, faults, notWorker>>

\* its updateTaskStatusMetrics: the counter of the old status is read
PGetOld ==
  LET k == MetricsKey(worker.peer.job.userId, worker.peer.job.oldStatus) IN
  /\ worker.peer.pc = "get_old"
  /\ worker' = [worker EXCEPT !.peer.pc = IF k \in DOMAIN redis /\ redis[k].val > 0
                                          THEN "decr_old" ELSE PAfterMetrics]
  /\ UNCHANGED <<now, redis, errors, db, queue, faults, notWorker>>

\* its updateTaskStatusMetrics: increment(key, -1, 'metrics')
PDecrOld ==
  /\ worker.peer.pc = "decr_old"
  /\ redis' = RedisIncrBy(redis, MetricsKey(worker.peer.job.userId, worker.peer.job.oldStatus), -1)
  /\ worker' = [worker EXCEPT !.peer.pc = PAfterMetrics]
  /\ UNCHANGED <<now, errors, db, queue, faults, notWorker>>

\* its handleTaskCompletion: findOne of the task, then the increment of
\* user_completions when the task exists
PFindTask ==
  LET id == CHOOSE i \in worker.peer.job.taskIds : TRUE IN
  /\ worker.peer.pc = "find_task"
  /\ worker' = [worker EXCEPT !.peer.pc = IF id \in DOMAIN db THEN "incr_completions"
                                          ELSE "invalidate"]
  /\ UNCHANGED <<now, redis, errors, db, queue, faults, notWorker>>

PIncrCompletions ==
  /\ worker.peer.pc = "incr_completions"
  /\ redis' = RedisIncrBy(redis, CompletionsKey(worker.peer.job.userId), 1)
  /\ worker' = [worker EXCEPT !.peer.pc = "invalidate"]
  /\ UNCHANGED <<now, errors, db, queue, faults, notWorker>>

\* its invalidateUserCaches; the job is over
PInvalidate ==
  LET u == worker.peer.job.userId IN
  /\ worker.peer.pc = "invalidate"
  /\ redis' = CacheDelPattern(
                CacheDelPattern(
                  CacheDelPattern(redis, InvPatterns(u)[1], "tasks"),
                  InvPatterns(u)[2], "tasks"),
                <<"user_stats", u>>, "stats")
  /\ worker' = [worker EXCEPT !.peer = PeerIdle]
  /\ UNCHANGED <<now, errors, db, queue, faults, notWorker>>

PeerStep ==
  \/ PTake
  \/ PIncrNew \/ PGetOld \/ PDecrOld
  \/ PFindTask \/ PIncrCompletions
  \/ PInvalidate

\* where the handler goes on when the helper it is in has caught an error
AfterCaught(pc) ==
  IF pc \in {"cleanup", "cleanup_metrics"} THEN "count_all"
  ELSE IF pc \in {"incr_new", "get_old", "decr_old"} THEN AfterMetrics
  ELSE IF pc = "invalidate" THEN "idle"
  ELSE "invalidate"

\* a cache command of the job fails: the helper logs a warning and returns
WCacheFails ==
  /\ worker.pc \in {"cleanup", "cleanup_metrics", "set_stats", "incr_new", "get_old",
                     "decr_old", "incr_completions", "invalidate"}
  /\ CanFail
  /\ errors' = errors + 1
  /\ worker' = IF AfterCaught(worker.pc) = "idle" THEN WEnd
               ELSE [worker EXCEPT !.pc = AfterCaught(worker.pc)]
  /\ UNCHANGED <<now, redis, db, queue, faults, notWorker>>

\* a query of the job fails: the helper logs a warning and returns
WStoreFails ==
  /\ worker.pc \in {"count_all", "count_completed", "find_task"}
  /\ CanFault
  /\ faults' = faults + 1
  /\ worker' = [worker EXCEPT !.pc = "invalidate"]
  /\ UNCHANGED <<now, redis, errors, db, queue, notWorker>>

WorkerStep ==
  \/ WTake \/ WUnknown
  \/ WCleanup
  \/ WCountAll \/ WCountCompleted \/ WSetStats
  \/ WIncrNew \/ WGetOld \/ WDecrOld
  \/ WFindTask \/ WIncrCompletions
  \/ WInvalidate
  \/ WCacheFails \/ WStoreFails

\* the calls that feed the queue: the followed user creates a task, sets the
\* status of its task, removes it or completes a batch, when no call is running;
\* one call less than in the specifications of the calls alone
ProducerCall(p) ==
  /\ p < MaxOps
  /\ \A q \in TaskOps : ~Running(q)
  /\ \/ CreateCall(p, TaskUser)
     \/ \E id \in OwnSeedIds, st \in Statuses : UpdateCall(p, id, st)
     \/ \E id \in OwnSeedIds : RemoveCall(p, id)
     \/ BatchCall(p, SeedIds, "COMPLETED")

\* their steps, with no failure
ProducerStep(p) ==
  \/ FoGet(p) \/ FoRead(p) \/ FoSet(p)
  \/ Save(p)
  \/ BQuery(p) \/ BUpdate(p)
  \/ InvPattern(p) \/ InvTask(p)
  \/ Commit(p)

NextDispatch ==
  \/ \E p \in TaskOps : ProducerCall(p)
  \/ \E p \in TaskOps : ProducerStep(p)
  \/ \E e \in timers : QueueAdd(e)
  \/ \E name \in SweepJobs : SweepAdd(name)
  \/ WorkerStep

\* the followed user, when no call is running, reads its list or its statistics,
\* creates a task, sets the status of its task or removes it
RepopulateCall(p) ==
  /\ \A q \in TaskOps : ~Running(q)
  /\ \/ FindAllCall(p)
     \/ GetStatisticsCall(p)
     \/ CreateCall(p, TaskUser)
     \/ \E id \in OwnSeedIds, st \in Statuses : UpdateCall(p, id, st)
     \/ \E id \in OwnSeedIds : RemoveCall(p, id)

\* the steps of these calls, with no failure
RepopulateStep(p) ==
  \/ FoGet(p) \/ FoRead(p) \/ FoSet(p)
  \/ Save(p)
  \/ InvPattern(p) \/ InvTask(p)
  \/ Commit(p)
  \/ FaGet(p) \/ FaRead(p) \/ FaSet(p)
  \/ GsGet(p) \/ GsRead(p) \/ GsSet(p)

NextDefensive ==
  \/ \E p \in TaskOps : RepopulateCall(p)
  \/ \E p \in TaskOps : RepopulateStep(p)
  \/ \E e \in timers : QueueAdd(e)
  \/ WTake
  \/ WCleanup
  \/ WCountAll \/ WCountCompleted \/ WSetStats
  \/ WIncrNew \/ WGetOld \/ WDecrOld
  \/ WFindTask \/ WIncrCompletions
  \/ WInvalidate
  \/ WCacheFails \/ WStoreFails

\* tasks of the followed user at the start of a month: two were completed
\* before the month began, one is pending
MonthIds == {"m1", "m2", "m3"}
MonthSeed ==
  [i \in MonthIds |->
     [id |-> i, userId |-> TaskUser,
      status |-> IF i = "m3" THEN StatusPending ELSE "COMPLETED", title |-> TitleGiven]]

\* the followed user sets the status of one of these tasks, when no call is running
StatusCall(p) ==
  /\ \A q \in TaskOps : ~Running(q)
  /\ \E id \in MonthIds, st \in Statuses : UpdateCall(p, id, st)

\* the steps of update, with no failure
StatusStep(p) ==
  \/ FoGet(p) \/ FoRead(p) \/ FoSet(p)
  \/ Save(p)
  \/ InvPattern(p) \/ InvTask(p)
  \/ Commit(p)

\* the status updates of one user and two instances of the job processor
NextMetrics ==
  \/ \E p \in TaskOps : StatusCall(p)
  \/ \E p \in TaskOps : StatusStep(p)
  \/ \E e \in timers : QueueAdd(e)
  \/ WTake
  \/ WIncrNew \/ WGetOld \/ WDecrOld
  \/ WFindTask \/ WIncrCompletions
  \/ WInvalidate
  \/ PeerStep

\* the followed user asks for its statistics, creates a task or removes one,
\* while other calls are running
CountingCall(p) ==
  \/ GetStatisticsCall(p)
  \/ CreateCall(p, TaskUser)
  \/ \E id \in OwnSeedIds : RemoveCall(p, id)

\* the steps of these calls, with no failure
CountingStep(p) ==
  \/ GsGet(p) \/ GsReadOne(p) \/ GsReadRest(p) \/ GsSet(p)
  \/ FoGet(p) \/ FoRead(p) \/ FoSet(p)
  \/ Save(p)
  \/ InvPattern(p) \/ InvTask(p)
  \/ Commit(p)

NextStatistics ==
  \/ \E p \in TaskOps : CountingCall(p)
  \/ \E p \in TaskOps : CountingStep(p)
  \/ \E e \in timers : QueueAdd(e)

\* the arrays of ids a batchUpdate is called with: the task of the caller, a
\* task of another user and an id the store does not hold, some of them repeated
ListedIds == {"s1", "s2", "x1"}
IdLists == UNION {[1 .. n -> ListedIds] : n \in 1 .. MaxOps}

\* batchUpdate with such an array, when no call is running
BatchInputCall(p) ==
  /\ \A q \in TaskOps : ~Running(q)
  /\ \E taskIds \in IdLists : BatchListCall(p, taskIds, "COMPLETED")

NextBatchInput ==
  \/ \E p \in TaskOps : BatchInputCall(p)
  \/ \E p \in TaskOps : BQuery(p)
  \/ \E p \in TaskOps : BUpdate(p)
  \/ \E p \in TaskOps : InvPattern(p)
  \/ \E p \in TaskOps : Commit(p)
  \/ \E e \in timers : QueueAdd(e)

-----------------------------------------------------------------------------
(* TasksService.generateCacheKey: the cache key of a findAll query.  An object is
   the sequence of its entries in insertion order; the numbers and booleans of
   the query are written as JSON writes them *)

Entry(k, v) == [k |-> k, v |-> v]

\* Object.keys(obj)
ObjectKeys(obj) == [i \in DOMAIN obj |-> obj[i].k]

\* obj[key]
Get(obj, key) == obj[CHOOSE i \in DOMAIN obj : obj[i].k = key].v

\* the keys whose value is an object
NestedKeys == {"pagination", "filters"}

\* the property names of a query in the order Array.prototype.sort() gives them
Alphabetical ==
  <<"filters", "includeUser", "limit", "page", "pagination", "priority", "status", "userId">>

\* Object.keys(params).sort()
SortKeys(keys) ==
  LET Named(k) == \E i \in DOMAIN keys : keys[i] = k IN SelectSeq(Alphabetical, Named)

\* .reduce((result, key) => { result[key] = params[key]; return result }, {}): the
\* entries of params in sorted order, each value as it is
SortedParams(params) ==
  LET keys == SortKeys(ObjectKeys(params)) IN
  [i \in DOMAIN keys |-> Entry(keys[i], Get(params, keys[i]))]

\* JSON.stringify(obj): the entries in insertion order, nested objects included
RECURSIVE JsonStringify(_)
JsonStringify(obj) ==
  IF obj = <<>> THEN <<>>
  ELSE LET e == Head(obj) IN
       (IF e.k \in NestedKeys
        THEN <<e.k, "{">> \o JsonStringify(e.v) \o <<"}">>
        ELSE <<e.k, e.v>>) \o JsonStringify(Tail(obj))

\* Buffer.from(text).toString('base64'): the text in another alphabet, piece by piece
Base64(text) == [i \in DOMAIN text |-> <<"base64", text[i]>>]

\* `${prefix}:${base64 of JSON.stringify(sortedParams)}`
GenerateCacheKey(prefix, params) == prefix \o Base64(JsonStringify(SortedParams(params)))

\* findAll: const { pagination, filters, userId, includeUser } = options, then
\* generateCacheKey('tasks:list', { pagination, filters, userId, includeUser })
ListCacheKey(options) ==
  GenerateCacheKey(<<"tasks", "list">>,
                   <<Entry("pagination", Get(options, "pagination")),
                     Entry("filters", Get(options, "filters")),
                     Entry("userId", Get(options, "userId")),
                     Entry("includeUser", Get(options, "includeUser"))>>)

\* the orders in which the keys ks can have been inserted
InsertionOrders(ks) ==
  {o \in [1 .. Cardinality(ks) -> ks] : \A i, j \in DOMAIN o : o[i] = o[j] => i = j}

\* the objects with the entries vs (a function from keys to values), in every order
Objects(vs) ==
  {[i \in DOMAIN o |-> Entry(o[i], vs[o[i]])] : o \in InsertionOrders(DOMAIN vs)}

\* the query options of the calls: the first page of the caller's tasks of a
\* status and a priority
QueryOptions ==
  UNION {Objects([pagination |-> p, filters |-> f, userId |-> TaskUser, includeUser |-> "false"]) :
           p \in Objects([page |-> "1", limit |-> "10"]),
           f \in UNION {Objects([status |-> st, priority |-> "HIGH"]) : st \in Statuses}}

\* two objects hold the same values under the same keys
SameEntries(a, b) ==
  /\ {a[i].k : i \in DOMAIN a} = {b[i].k : i \in DOMAIN b}
  /\ \A i \in DOMAIN a : a[i].k \notin NestedKeys => Get(b, a[i].k) = a[i].v

\* two query options are equal as values
EqualAsValues(a, b) ==
  /\ SameEntries(a, b)
  /\ \A k \in NestedKeys : SameEntries(Get(a, k), Get(b, k))

\* the options of the findAll that is running
CurrentOptions == IF cc.call = 1 THEN cc.first ELSE cc.second

\* where the calls go when a findAll has returned
AfterFindAll(c) ==
  IF c.call = 1 THEN [c EXCEPT !.call = 2, !.pc = "get"] ELSE [c EXCEPT !.pc = "done"]

\* findAll(options): cacheService.get(cacheKey, 'tasks'); a hit is returned
KeyedGet ==
  /\ cc.pc = "get"
  /\ cc' = IF CacheKey(ListCacheKey(CurrentOptions), "tasks") \in DOMAIN redis
            THEN AfterFindAll([cc EXCEPT !.hit = cc.call = 2])
            ELSE [cc EXCEPT !.pc = "set"]
  /\ UNCHANGED <<now, redis, errors, notCallers>>

\* after a miss: the rows are read and cached under the key, findAll returns
KeyedSet ==
  /\ cc.pc = "set"
  /\ redis' = RedisSetEx(redis, CacheKey(ListCacheKey(CurrentOptions), "tasks"), ListTtl,
                         RowsOf(db, TaskUser))
  /\ cc' = AfterFindAll(cc)
  /\ UNCHANGED <<now, errors, notCallers>>

NextListKeys == KeyedGet \/ KeyedSet

-----------------------------------------------------------------------------
(* AuthService.refreshToken and AuthService.logout on one refresh token *)

\* payload.tokenId of the refresh token the calls present; the token verifies
\* and has not expired
PresentedToken == "t"

\* `blacklist:${tokenId}` in the namespace 'auth'
BlacklistKey(tokenId) == CacheKey(<<"blacklist", tokenId>>, "auth")

\* what the calls have done to the token so far: revoked when a refreshToken has
\* returned tokens or a logout has blacklisted it, succeeded counts the
\* refreshToken calls that returned tokens
TokenFresh == [revoked |-> FALSE, succeeded |-> 0]

\* a call on the presented token goes to the first free worker
TokenCall(p, kind, pc) ==
  /\ ~InFlight(p)
  /\ \A q \in AuthWorkers : q < p => InFlight(q)
  /\ logins.made < MaxLogins
  /\ logins' = [logins EXCEPT !.made = @ + 1]
  /\ au' = [au EXCEPT ![p] = [AuIdle EXCEPT !.pc = pc, !.kind = kind,
                                           !.tokenId = PresentedToken,
                                           !.revokedAtStart = cc.revoked]]
  /\ UNCHANGED <<now, redis, errors, notAuth>>

\* refreshToken(refreshToken): jwtService.verify succeeds, the type is 'refresh'
RefreshStart(p) == TokenCall(p, "refresh", "rt_exists")

\* logout(userId, refreshToken): the token decodes to a payload with a tokenId
LogoutStart(p) == TokenCall(p, "logout", "lo_blacklist")

\* the call ends; its record keeps what kind of call it was and what it found
TokenDone(p, outcome) ==
  [au EXCEPT ![p] = [AuIdle EXCEPT !.pc = "done", !.outcome = outcome,
                                   !.kind = au[p].kind,
                                   !.revokedAtStart = au[p].revokedAtStart]]

\* isTokenBlacklisted(payload.tokenId): a blacklisted token is rejected with
\* AuthenticationException('Token has been revoked')
RtExists(p) ==
  /\ au[p].pc = "rt_exists"
  /\ au' = IF BlacklistKey(au[p].tokenId) \in DOMAIN redis
            THEN TokenDone(p, "AuthenticationException")
            ELSE [au EXCEPT ![p].pc = "rt_user"]
  /\ UNCHANGED <<now, redis, errors, logins, notAuth>>

\* the EXISTS fails: CacheService.exists returns false and the call goes on
RtExistsFails(p) ==
  /\ au[p].pc = "rt_exists"
  /\ CanFail
  /\ errors' = errors + 1
  /\ au' = [au EXCEPT ![p].pc = "rt_user"]
  /\ UNCHANGED <<now, redis, logins, notAuth>>

\* usersService.findOne(payload.sub): the user of the token exists
RtFindUser(p) ==
  /\ au[p].pc = "rt_user"
  /\ au' = [au EXCEPT ![p].pc = "rt_blacklist"]
  /\ UNCHANGED <<now, redis, errors, logins, notAuth>>

\* blacklistToken(tokenId, ttl): cacheService.set(`blacklist:${tokenId}`, true,
\* { ttl, namespace: 'auth' })
BlacklistToken(s, tokenId) ==
  CacheSet(s, <<"blacklist", tokenId>>, "auth", <<RefreshTokenTtl>>, TRUE)

\* refreshToken blacklists the old refresh token
RtBlacklist(p) ==
  /\ au[p].pc = "rt_blacklist"
  /\ redis' = BlacklistToken(redis, au[p].tokenId)
  /\ au' = [au EXCEPT ![p].pc = "rt_tokens"]
  /\ UNCHANGED <<now, errors, logins, notAuth>>

\* the set fails: the cache error leaves refreshToken
RtBlacklistFails(p) ==
  /\ au[p].pc = "rt_blacklist"
  /\ CanFail
  /\ errors' = errors + 1
  /\ au' = TokenDone(p, "error")
  /\ UNCHANGED <<now, redis, logins, notAuth>>

\* generateTokens(user) stores the new refresh token; refreshToken returns tokens
RtTokens(p) ==
  /\ au[p].pc = "rt_tokens"
  /\ redis' = RedisSetEx(redis, RefreshKey(ToString(cc.succeeded + 1)), RefreshTokenTtl,
                         [userId |-> Email])
  /\ cc' = [revoked |-> TRUE, succeeded |-> cc.succeeded + 1]
  /\ au' = TokenDone(p, "success")
  /\ UNCHANGED <<now, errors, logins, rl, db, ops, timers, queue, faults, worker>>

\* the set of generateTokens fails: the cache error leaves refreshToken
RtTokensFails(p) ==
  /\ au[p].pc = "rt_tokens"
  /\ CanFail
  /\ errors' = errors + 1
  /\ au' = TokenDone(p, "error")
  /\ UNCHANGED <<now, redis, logins, notAuth>>

\* logout blacklists the token
LoBlacklist(p) ==
  /\ au[p].pc = "lo_blacklist"
  /\ redis' = BlacklistToken(redis, au[p].tokenId)
  /\ cc' = [cc EXCEPT !.revoked = TRUE]
  /\ au' = [au EXCEPT ![p].pc = "lo_del"]
  /\ UNCHANGED <<now, errors, logins, rl, db, ops, timers, queue, faults, worker>>

\* the set fails: logout logs the error and rethrows
LoBlacklistFails(p) ==
  /\ au[p].pc = "lo_blacklist"
  /\ CanFail
  /\ errors' = errors + 1
  /\ au' = TokenDone(p, "error")
  /\ UNCHANGED <<now, redis, logins, notAuth>>

\* cacheService.delPattern(`user:${userId}:*`), then logout returns
LoDelPattern(p) ==
  /\ au[p].pc = "lo_del"
  /\ redis' = DelPatternBare(redis, <<"user", Email, "*">>)
  /\ au' = TokenDone(p, "success")
  /\ UNCHANGED <<now, errors, logins, notAuth>>

\* the delPattern fails: logout logs the error and rethrows
LoDelPatternFails(p) ==
  /\ au[p].pc = "lo_del"
  /\ CanFail
  /\ errors' = errors + 1
  /\ au' = TokenDone(p, "error")
  /\ UNCHANGED <<now, redis, logins, notAuth>>

TokenStep(p) ==
  \/ RtExists(p) \/ RtExistsFails(p)
  \/ RtFindUser(p)
  \/ RtBlacklist(p) \/ RtBlacklistFails(p)
  \/ RtTokens(p) \/ RtTokensFails(p)
  \/ LoBlacklist(p) \/ LoBlacklistFails(p)
  \/ LoDelPattern(p) \/ LoDelPatternFails(p)

NextRefresh ==
  \/ \E p \in AuthWorkers : RefreshStart(p)
  \/ \E p \in AuthWorkers : LogoutStart(p)
  \/ \E p \in AuthWorkers : TokenStep(p)

-----------------------------------------------------------------------------
(* OverdueTasksService.checkOverdueTasks: the hourly overdue sweep *)

\* take: 1000
OverdueTake == 1000
\* ttl of the overdue marker and of the overdue metrics, in seconds
MarkerTtl == 24 * 60 * 60
OverdueMetricsTtl == 25 * 60 * 60
\* the sweep runs every hour
HourMs == 60 * 60 * MsPerSecond

\* the tasks the store holds when the sweeps are followed, and their due dates:
\* three are past due after half an hour, one is due after three hours
SweepIds == {"o1", "o2", "o3", "o4"}
SweepSeed ==
  [i \in SweepIds |->
     [id |-> i, userId |-> TaskUser,
      status |-> IF i = "o2" THEN "COMPLETED" ELSE IF i = "o3" THEN "CANCELLED"
                 ELSE StatusPending,
      title |-> TitleGiven]]
DueDate(id) == IF id = "o4" THEN 3 * HourMs ELSE HourMs \div 2

\* Not(value) of typeorm
Not(value) == [type |-> "not", value |-> value]

\* a && b of two FindOperator objects: an object is truthy, the value is b
JsAnd(a, b) == b

\* the status condition of the sweep's where clause
OverdueStatusWhere == JsAnd(Not("COMPLETED"), Not("CANCELLED"))

\* whether a status satisfies a Not(...) condition
Satisfies(status, cond) == status # cond.value

\* tasksRepository.find({ where: { dueDate: LessThan(now), status: ... }, take: 1000 })
OverdueFound(d, t) ==
  LET all == {id \in DOMAIN d : DueDate(id) < t /\ Satisfies(d[id].status, OverdueStatusWhere)}
  IN IF Cardinality(all) <= OverdueTake THEN all
     ELSE CHOOSE T \in SUBSET all : Cardinality(T) = OverdueTake

\* the sweep between its runs; runs counts the runs, found and tried are the
\* rows the last run found and those it has called processOverdueTask for
SweepIdle ==
  [pc |-> "idle", todo |-> {}, cur |-> "none", found |-> {}, tried |-> {},
   runs |-> 0, outcome |-> "none"]

\* the key of the overdue marker of a task and of the metrics of the day
MarkerKey(id) == CacheKey(<<"task_overdue", id>>, "overdue")
OverdueMetricsKey == CacheKey(<<"overdue_metrics", "today">>, "metrics")

\* where the run goes when processOverdueTask has returned
AfterRow(c) ==
  [c EXCEPT !.cur = "none", !.pc = IF c.todo = {} THEN "metrics" ELSE "rows"]

\* the cron tick: checkOverdueTasks calls processOverdueTasks, which queries the store
OvStart ==
  /\ cc.pc = "idle"
  /\ cc.runs <= MaxSweepJobs
  /\ LET rows == OverdueFound(db, now) IN
     cc' = [cc EXCEPT !.runs = @ + 1, !.found = rows, !.todo = rows, !.tried = {},
                      !.outcome = "none",
                      !.pc = IF rows = {} THEN "metrics" ELSE "rows"]
  /\ UNCHANGED <<now, redis, errors, notCallers>>

\* the query fails: the error leaves processOverdueTasks and is caught and logged
\* by checkOverdueTasks
OvStartFails ==
  /\ cc.pc = "idle"
  /\ cc.runs <= MaxSweepJobs
  /\ CanFault
  /\ faults' = faults + 1
  /\ cc' = [cc EXCEPT !.runs = @ + 1, !.found = {}, !.todo = {}, !.tried = {},
                      !.outcome = "logged"]
  /\ UNCHANGED <<now, redis, errors, rl, au, logins, db, ops, timers, queue, worker>>

\* processOverdueTask(task): taskQueue.add('task-overdue', ...)
OvRowAdd(id) ==
  /\ cc.pc = "rows" /\ id \in cc.todo
  /\ queue' = Append(queue, [NoJob EXCEPT !.name = "task-overdue", !.taskIds = {id},
                                           !.userId = db[id].userId])
  /\ cc' = [cc EXCEPT !.pc = "row_set", !.cur = id, !.todo = @ \ {id}, !.tried = @ \cup {id}]
  /\ UNCHANGED <<now, redis, errors, rl, au, logins, db, ops, timers, faults, worker>>

\* a processOverdueTask whose error leaves the loop of processOverdueTasks
OvRowAddFailsLoop(id) ==
  /\ cc.pc = "rows" /\ id \in cc.todo
  /\ CanFault
  /\ faults' = faults + 1
  /\ cc' = [cc EXCEPT !.todo = {}, !.tried = @ \cup {id}, !.pc = "idle", !.outcome = "logged"]
  /\ UNCHANGED <<now, redis, errors, rl, au, logins, db, ops, timers, queue, worker>>

\* taskQueue.add fails: processOverdueTask logs a warning and returns
OvRowAddFails(id) ==
  /\ cc.pc = "rows" /\ id \in cc.todo
  /\ CanFault
  /\ faults' = faults + 1
  /\ cc' = AfterRow([cc EXCEPT !.todo = @ \ {id}, !.tried = @ \cup {id}])
  /\ UNCHANGED <<now, redis, errors, rl, au, logins, db, ops, timers, queue, worker>>

\* processOverdueTask: cacheService.set(`task_overdue:${task.id}`, ..., { ttl: 24 h })
OvRowSet ==
  /\ cc.pc = "row_set"
  /\ redis' = RedisSetEx(redis, MarkerKey(cc.cur), MarkerTtl, [taskId |-> cc.cur])
  /\ cc' = AfterRow(cc)
  /\ UNCHANGED <<now, errors, notCallers>>

\* the set fails: CacheService.set rethrows, processOverdueTask logs a warning
OvRowSetFails ==
  /\ cc.pc = "row_set"
  /\ CanFail
  /\ errors' = errors + 1
  /\ cc' = AfterRow(cc)
  /\ UNCHANGED <<now, redis, notCallers>>

\* updateOverdueMetrics: cacheService.set(`overdue_metrics:${today}`, ..., { ttl: 25 h });
\* the run returns
OvMetrics ==
  /\ cc.pc = "metrics"
  /\ redis' = RedisSetEx(redis, OverdueMetricsKey, OverdueMetricsTtl,
                         [count |-> Cardinality(cc.found)])
  /\ cc' = [cc EXCEPT !.pc = "idle", !.outcome = "returned"]
  /\ UNCHANGED <<now, errors, notCallers>>

\* the set fails: updateOverdueMetrics logs a warning; the run returns
OvMetricsFails ==
  /\ cc.pc = "metrics"
  /\ CanFail
  /\ errors' = errors + 1
  /\ cc' = [cc EXCEPT !.pc = "idle", !.outcome = "returned"]
  /\ UNCHANGED <<now, redis, notCallers>>

\* an hour passes between two runs
SweepTick ==
  /\ cc.pc = "idle"
  /\ now < 2 * HourMs
  /\ now' = now + HourMs
  /\ redis' = Purge(redis, now')
  /\ UNCHANGED <<errors, cc, notCallers>>

NextSweeps ==
  \/ OvStart \/ OvStartFails
  \/ \E id \in SweepIds : OvRowAdd(id)
  \/ \E id \in SweepIds : OvRowAddFails(id)
  \/ OvRowSet \/ OvRowSetFails
  \/ OvMetrics \/ OvMetricsFails
  \/ SweepTick

-----------------------------------------------------------------------------
(* Specifications *)

Init ==
  /\ now = 0
  /\ redis = <<>>
  /\ errors = 0
  /\ rl = [p \in RLReqs |-> RLIdle]
  /\ cc = <<>>
  /\ au = [p \in AuthWorkers |-> AuIdle]
  /\ logins = [made |-> 0, valid |-> 0]
  /\ db = <<>>
  /\ ops = [p \in TaskOps |-> OpIdle]
  /\ timers = {}
  /\ queue = <<>>
  /\ faults = 0
  /\ worker = WorkerIdle

\* the service starts on a store that holds tasks, with an empty cache
InitStore ==
  /\ now = 0
  /\ redis = <<>>
  /\ errors = 0
  /\ rl = [p \in RLReqs |-> RLIdle]
  /\ cc = <<>>
  /\ au = [p \in AuthWorkers |-> AuIdle]
  /\ logins = [made |-> 0, valid |-> 0]
  /\ db = Seed
  /\ ops = [p \in TaskOps |-> OpIdle]
  /\ timers = {}
  /\ queue = <<>>
  /\ faults = 0
  /\ worker = WorkerIdle

RLStep(p) ==
  \/ RLGet(p) \/ RLGetFails(p)
  \/ RLIncr(p) \/ RLIncrFails(p)
  \/ RLExpire(p) \/ RLExpireFails(p)

NextRate ==
  \/ \E p \in RLReqs : RLStart(p)
  \/ \E p \in RLReqs : RLStep(p)
  \/ RateTick

NextRateSeq ==
  \/ \E p \in RLReqs : RLStartAlone(p)
  \/ \E p \in RLReqs : RLStep(p)
  \/ RateTick

\* a call that starts when at most one other call is running
RLStartBeside(p) ==
  /\ Cardinality({q \in RLReqs : rl[q].pc \notin {"idle", "done"}}) <= 1
  /\ RLStart(p)

\* requests, two at a time, the passing of time and the nightly cache cleanup
NextRateSweep ==
  \/ \E p \in RLReqs : RLStartBeside(p)
  \/ \E p \in RLReqs : RLStep(p)
  \/ RateTick
  \/ CleanupExpiredCacheEntries
  \/ CleanupFails

\* a request to one of the routes that starts when no other call is running
RLStartOnAlone(p, route) == RLQuiet /\ RLStartOn(p, route)

NextRoutesSeq ==
  \/ \E p \in RLReqs, route \in Routes : RLStartOnAlone(p, route)
  \/ \E p \in RLReqs : RLStep(p)
  \/ RateTick

\* sequential requests of one identity to two routes
SpecRoutesSeq == Init /\ [][NextRoutesSeq]_vars

\* concurrent requests against one policy and one identity
SpecRate == Init /\ [][NextRate]_vars

\* the requests of one caller, two at a time, next to the nightly cache cleanup
SpecRateSweep == Init /\ [][NextRateSweep]_vars

\* the same requests issued one after the other
SpecRateSeq == Init /\ [][NextRateSeq]_vars

\* concurrent CacheService.increment calls on one key that does not exist
SpecIncr == Init /\ [][NextIncr]_vars

\* concurrent login calls for one email
SpecAuth == Init /\ [][NextAuth]_vars

\* login calls for one email issued one after the other
SpecAuthSeq == Init /\ [][NextAuthSeq]_vars

\* concurrent TasksService calls of one user
SpecTasks == Init /\ [][NextTasks]_vars

\* the same calls made one after the other
SpecTasksSeq == Init /\ [][NextTasksSeq]_vars

\* concurrent findOne and update calls of a user on its task in a store that
\* holds tasks of two users
SpecStore == InitStore /\ [][NextStore]_vars

\* TasksService calls of both users on that store, made one after the other
SpecStoreSeq == InitStore /\ [][NextStoreSeq]_vars

\* callers of CacheService.set and get, and the passing of time
SpecTtl == Init /\ [][NextTtl]_vars

\* callers of CacheService.set and delPattern, and the passing of time
SpecDelPattern == Init /\ [][NextDelPattern]_vars

\* the job processor, fed by sequential mutations and by the sweeps
SpecDispatch == InitStore /\ [][NextDispatch]_vars

\* the worker keeps running: a step of the processor that can be taken is taken
SpecDispatchFair == SpecDispatch /\ WF_vars(WorkerStep)

\* the reads of the three cached views and the mutations, one call after the
\* other, and the passing of time
SpecViewsSeq == InitStore /\ [][NextViewsSeq]_vars

\* the reads of the three cached views and update, one call after the other,
\* and the passing of time
SpecStaleness == InitStore /\ [][NextStaleness]_vars

\* the pipeline, the reads that fill the list and the statistics again, and the
\* job processor
SpecDefensive == InitStore /\ [][NextDefensive]_vars

\* the store at the start of a month, with an empty cache
InitMonth ==
  /\ now = 0
  /\ redis = <<>>
  /\ errors = 0
  /\ rl = [p \in RLReqs |-> RLIdle]
  /\ cc = <<>>
  /\ au = [p \in AuthWorkers |-> AuIdle]
  /\ logins = [made |-> 0, valid |-> 0]
  /\ db = MonthSeed
  /\ ops = [p \in TaskOps |-> OpIdle]
  /\ timers = {}
  /\ queue = <<>>
  /\ faults = 0
  /\ worker = WorkerIdle

\* status updates whose jobs two instances of the processor handle
SpecMetrics == InitMonth /\ [][NextMetrics]_vars

\* the store and the cache when the sweeps are followed
InitSweeps ==
  /\ now = 0
  /\ redis = <<>>
  /\ errors = 0
  /\ rl = [p \in RLReqs |-> RLIdle]
  /\ cc = SweepIdle
  /\ au = [p \in AuthWorkers |-> AuIdle]
  /\ logins = [made |-> 0, valid |-> 0]
  /\ db = SweepSeed
  /\ ops = [p \in TaskOps |-> OpIdle]
  /\ timers = {}
  /\ queue = <<>>
  /\ faults = 0
  /\ worker = WorkerIdle

\* the runs of the hourly overdue sweep
SpecSweeps == InitSweeps /\ [][NextSweeps]_vars

\* getStatistics next to concurrent create and remove calls
SpecStatistics == InitStore /\ [][NextStatistics]_vars

\* the service starts with a refresh token that was issued and not yet used
InitRefresh ==
  /\ now = 0
  /\ redis = <<>>
  /\ errors = 0
  /\ rl = [p \in RLReqs |-> RLIdle]
  /\ cc = TokenFresh
  /\ au = [p \in AuthWorkers |-> AuIdle]
  /\ logins = [made |-> 0, valid |-> 0]
  /\ db = <<>>
  /\ ops = [p \in TaskOps |-> OpIdle]
  /\ timers = {}
  /\ queue = <<>>
  /\ faults = 0
  /\ worker = WorkerIdle

\* refreshToken and logout calls on one refresh token, on two workers
SpecRefresh == InitRefresh /\ [][NextRefresh]_vars

\* two findAll calls, one after the other, each with its query options
InitListKeys ==
  /\ now = 0
  /\ redis = <<>>
  /\ errors = 0
  /\ rl = [p \in RLReqs |-> RLIdle]
  /\ cc \in {[first |-> a, second |-> b, call |-> 1, pc |-> "get", hit |-> FALSE] :
               a \in QueryOptions, b \in QueryOptions}
  /\ au = [p \in AuthWorkers |-> AuIdle]
  /\ logins = [made |-> 0, valid |-> 0]
  /\ db = Seed
  /\ ops = [p \in TaskOps |-> OpIdle]
  /\ timers = {}
  /\ queue = <<>>
  /\ faults = 0
  /\ worker = WorkerIdle

SpecListKeys == InitListKeys /\ [][NextListKeys]_vars

\* batchUpdate calls whose array of ids may repeat an id
SpecBatchInput == InitStore /\ [][NextBatchInput]_vars

\* findOne, batchUpdate and update of single fields, one call after the other
SpecFieldsSeq == InitStore /\ [][NextFieldsSeq]_vars

\* findOne, update and remove on the tasks of two users
SpecLookups == InitStore /\ [][NextLookups]_vars

\* create, update, remove and batchUpdate of one user on a store that holds tasks
SpecMutations == InitStore /\ [][NextMutations]_vars

\* create and batchUpdate, one call after the other, on a store that holds tasks
SpecBatchSeq == InitStore /\ [][NextBatchSeq]_vars

-----------------------------------------------------------------------------
(* Rate limiter: what the claims speak of *)

\* the calls of window w that were allowed
AllowedIn(w) == {p \in RLReqs : rl[p].windowStart = w /\ rl[p].result = "allowed"}

\* the calls of window w that were rejected
RejectedIn(w) ==
  {p \in RLReqs : rl[p].windowStart = w /\ rl[p].result = "RateLimitException"}

\* the calls of window w whose increment has been applied
CountedIn(w) ==
  {p \in RLReqs : rl[p].windowStart = w
                   /\ (rl[p].result = "allowed" \/ rl[p].pc = "expire")}

\* the window the clock is in
CurrentWindow == WindowStart(now)

\* C1: with the cache healthy, of the concurrent canActivate calls of one identity
\* that fall in the same window at most RateLimit are allowed.  (The calls counted
\* are those of the window the clock is still in: they ran inside it.)
C1_AtMostLimitAllowed ==
  errors = 0 => Cardinality(AllowedIn(CurrentWindow)) <= RateLimit

\* C2: calls issued one after the other, cache healthy: in the window the clock is
\* in, the allowed calls saw the counter values 1 .. k after their increment
\* (so the first call of a new window sees 1), k never exceeds the limit, a call is
\* rejected only once the limit is used up and a rejected call adds nothing to
\* the counter, and a call that got past the limit test found the window not full.
C2_SequentialBoundary ==
  errors = 0 =>
    LET w == CurrentWindow
        k == Cardinality(AllowedIn(w))
    IN /\ {rl[p].newCount : p \in AllowedIn(w)} = 1 .. k
       /\ k <= RateLimit
       /\ \A p \in RejectedIn(w) : k = RateLimit /\ rl[p].currentCount = RateLimit
       /\ \A p \in RLReqs :
            rl[p].windowStart = w /\ rl[p].pc = "incr" => k < RateLimit
       /\ IF RateCounter(w) \in DOMAIN redis
          THEN redis[RateCounter(w)].val = Cardinality(CountedIn(w))
          ELSE CountedIn(w) = {}

\* C2 witness: the first window was used up and a call was rejected in it, and a
\* call of the next window was allowed with the counter at 1
C2_Witness ==
  /\ errors = 0
  /\ CurrentWindow = RateWindowMs
  /\ Cardinality(AllowedIn(0)) = RateLimit
  /\ RejectedIn(0) # {}
  /\ \E p \in AllowedIn(RateWindowMs) : rl[p].newCount = 1

\* C3: a canActivate call ends allowed or with RateLimitException, never with an
\* infrastructure error; a RateLimitException is a logical rejection (the count read
\* was at the limit); a call that met a cache error was allowed.
C3_FailOpen ==
  \A p \in RLReqs :
    rl[p].pc = "done" =>
      /\ rl[p].result \in {"allowed", "RateLimitException"}
      /\ (rl[p].result = "RateLimitException" => rl[p].currentCount >= RateLimit)
      /\ (rl[p].cacheError => rl[p].result = "allowed")

\* C3 witness: a call whose increment failed (the count it read was a real one,
\* no new count was returned) ended allowed
C3_Witness ==
  \E p \in RLReqs :
    /\ rl[p].pc = "done" /\ rl[p].cacheError /\ rl[p].result = "allowed"
    /\ rl[p].newCount = 0

-----------------------------------------------------------------------------
(* Login lockout: what the claims speak of *)

\* the step with which the login call of worker p ends
Finishes(p) == InFlight(p) /\ au'[p].pc = "done"

\* the step with which the login call of worker p returns its tokens
Succeeds(p) == Finishes(p) /\ au'[p].outcome = "success"

\* the failed-attempt counter as the cache holds it: its value and its expiry
CounterEntry(s) ==
  IF AttemptsKey \in DOMAIN s THEN s[AttemptsKey] ELSE [val |-> 0, exp |-> 0]

\* a step of the login call of worker p (the clock stands still)
StepOf(p) == InFlight(p) /\ au'[p] # au[p] /\ now' = now

\* C5: with the cache healthy and the logins made one after the other: the failed
\* login that takes the counter to 5 or beyond leaves the lockout flag set, and a
\* login during which the flag existed from its start to its end ends with the
\* lockout error, none of its steps changing the failed-attempt counter.
C5_LockoutThreshold ==
  [][\A p \in AuthWorkers :
       errors' = 0 =>
         /\ (Finishes(p) /\ au'[p].outcome = "invalid" /\ au[p].attempts >= MaxAttempts
               => Locked(redis'))
         /\ (Finishes(p) /\ au[p].lockedSince => au'[p].outcome = "locked")
         /\ (StepOf(p) /\ au[p].lockedSince
               => CounterEntry(redis') = CounterEntry(redis))]_vars

\* C6: a login during which the lockout flag has existed since its start never
\* gets to the credential check, whatever the counter holds and whether or not
\* it could be read; it ends with the lockout error, and none of its steps
\* changes the failed-attempt counter.
C6_LockoutCheckedFirst ==
  [][\A p \in AuthWorkers :
       StepOf(p) /\ au[p].lockedSince =>
         /\ au'[p].pc # "cred"
         /\ CounterEntry(redis') = CounterEntry(redis)
         /\ (Finishes(p) => au'[p].outcome = "locked")]_vars

\* C7 as stated: when a login returns success and no other login is in flight at
\* that moment, neither the counter nor the lockout flag exists.
C7_ClearedOnSuccess ==
  [][\A p \in AuthWorkers :
       Succeeds(p) /\ (\A q \in AuthWorkers \ {p} : ~InFlight(q)) =>
         AttemptsKey \notin DOMAIN redis' /\ ~Locked(redis')]_vars

\* C7 amended: when a login returns success and no other login was in flight at
\* any time since it started, neither the counter nor the lockout flag exists.
C7_ClearedOnSuccessAlone ==
  [][\A p \in AuthWorkers :
       Succeeds(p) /\ au[p].alone =>
         AttemptsKey \notin DOMAIN redis' /\ ~Locked(redis')]_vars

\* C7 witness: a login that found the counter at the threshold and the lockout
\* flag set, ran alone and returned success; both keys are gone
C7_Witness ==
  \E p \in AuthWorkers :
    /\ au[p].pc = "done" /\ au[p].outcome = "success" /\ au[p].alone
    /\ au[p].lockedAtStart /\ au[p].counterAtStart >= MaxAttempts
    /\ AttemptsKey \notin DOMAIN redis /\ ~Locked(redis)

-----------------------------------------------------------------------------
(* Task mutation pipeline: what the claims speak of *)

\* a step of call p that performs a cache deletion of invalidateTaskCache
Invalidates(p) ==
  ops[p].pc \in {"inv", "inv_task"} /\ ops'[p] # ops[p] /\ errors' = errors

\* C8: a mutation performs a cache deletion of its invalidation only when its
\* transaction has committed.
C8_CommitBeforeInvalidation ==
  [][\A p \in TaskOps : Invalidates(p) => ops[p].tx = "committed"]_vars

\* C9: every job on the queue describes a mutation whose transaction has
\* committed (none is there while the transaction is open or after it was
\* rolled back).
C9_CommitBeforeEnqueue ==
  \A i \in DOMAIN queue : ops[queue[i].op].tx = "committed"

\* a remove of task t has been called
RemoveCalled(t) == \E q \in TaskOps : ops[q].kind = "remove" /\ ops[q].taskId = t

\* C10: with the calls made one after the other and no command failing, a
\* findAll of the user that was called after a create of the user had returned
\* returns a list that holds the created task, unless a remove of that task
\* has been called.
C10_NoStaleListAfterCreate ==
  \A f \in TaskOps :
    (/\ errors = 0 /\ faults = 0
     /\ ops[f].kind = "findAll" /\ ops[f].pc = "done" /\ ops[f].outcome = "ok")
    => \A t \in ops[f].mustSee :
         RemoveCalled(t) \/ t \in {r.id : r \in ops[f].result}

\* no call that writes to the store has been made after call f
NoLaterMutation(f) ==
  \A q \in TaskOps : q > f => ops[q].kind \notin Mutations

\* C11: with no command failing, a findOne that was called when no call was
\* running and an update of the task was the last call made on it and had
\* returned, and after which no call that writes to the store was made, returns
\* the task with the status the store holds.
C11_ReadYourWrites ==
  \A f \in TaskOps :
    (/\ errors = 0 /\ faults = 0
     /\ ops[f].kind = "findOne" /\ ops[f].pc = "done" /\ ops[f].outcome = "ok"
     /\ ops[f].expect # "none" /\ NoLaterMutation(f))
    => \A r \in ops[f].result : r.status = ops[f].expect

-----------------------------------------------------------------------------
(* CacheService.increment: what the claims speak of *)

\* the callers whose increment returned
Returned == {p \in DOMAIN cc : cc[p].pc = "returned"}

RECURSIVE SumAmounts(_)
SumAmounts(ps) ==
  IF ps = {} THEN 0
  ELSE LET p == CHOOSE q \in ps : TRUE IN cc[p].amount + SumAmounts(ps \ {p})

\* C4: the counter exists exactly when an increment returned, its value is the
\* sum of the amounts of the increments that returned (no update is lost, the
\* first one creates it with its amount), and when the callers all passed 1 the
\* values returned are the distinct values 1 .. n for the n calls that returned.
C4_AtomicIncrement ==
  LET k == CacheKey(CounterKey, CounterNs) IN
  /\ (k \in DOMAIN redis) = (Returned # {})
  /\ k \in DOMAIN redis => redis[k].val = SumAmounts(Returned)
  /\ (\A p \in DOMAIN cc : cc[p].amount = 1) =>
        /\ {cc[p].returned : p \in Returned} = 1 .. Cardinality(Returned)
        /\ \A p, q \in Returned : cc[p].returned = cc[q].returned => p = q

\* C4 witness: NumCallers calls of increment(key, 1) were in flight together and
\* all returned, the stored value is NumCallers
C4_Witness ==
  /\ Returned = 1 .. NumCallers
  /\ \A p \in Returned : cc[p].amount = 1
  /\ redis[CacheKey(CounterKey, CounterNs)].val = NumCallers

\* the ids of taskIds that exist and belong to the caller
OwnedBy(p) == {i \in ops[p].ids \cap DOMAIN db : db[i].userId = ops[p].userId}

\* batchUpdate p takes its last step
BatchEnds(p) == ops[p].kind = "batch" /\ Running(p) /\ ops'[p].pc = "done"

\* C12: with the calls made one after the other, a batchUpdate whose store
\* commands succeed returns and does not throw; its summary has total = the
\* number of ids, successful = the number of ids that exist and belong to the
\* caller, failed = the number of the other ids; the other ids are the ones
\* reported as failed, the successful items are the owned tasks with the new
\* status, which the store then holds, and every other task of the store is
\* left as it was.
C12_BatchPartialFailure ==
  [][\A p \in TaskOps :
       (BatchEnds(p) /\ faults' = faults)
       => LET own == OwnedBy(p)
              rest == ops[p].ids \ own IN
          /\ ops'[p].outcome = "ok"
          /\ Summary(p)'.total = Cardinality(ops[p].ids)
          /\ Summary(p)'.successful = Cardinality(own)
          /\ Summary(p)'.failed = Cardinality(rest)
          /\ ops'[p].failed = rest
          /\ {r.id : r \in ops'[p].result} = own
          /\ \A r \in ops'[p].result : r.status = ops[p].status /\ db'[r.id] = r
          /\ \A i \in DOMAIN db \ own : i \in DOMAIN db' /\ db'[i] = db[i]
          /\ DOMAIN db' = DOMAIN db]_vars

\* a batchUpdate over an owned task, a task of another user and an id that does
\* not exist has returned two failures and one task with a new status
C12_Witness ==
  \E p \in TaskOps :
    /\ ops[p].kind = "batch" /\ ops[p].pc = "done" /\ ops[p].outcome = "ok"
    /\ Summary(p).total = 3 /\ Summary(p).successful = 1 /\ Summary(p).failed = 2
    /\ \E i \in ops[p].failed : i \in DOMAIN db /\ db[i].userId # ops[p].userId
    /\ \E i \in ops[p].failed : i \notin DOMAIN db
    /\ \E r \in ops[p].result : r.status = "COMPLETED" /\ db[r.id] = r

\* the task-status-updated events of update p, waiting in setImmediate or enqueued
StatusEvents(p) ==
  {e \in timers : e.op = p /\ e.name = "task-status-updated"}
  \cup {queue[i] : i \in {j \in DOMAIN queue :
                             queue[j].op = p /\ queue[j].name = "task-status-updated"}}

\* the number of task-status-updated events of update p
NumStatusEvents(p) ==
  Cardinality({e \in timers : e.op = p /\ e.name = "task-status-updated"})
  + Cardinality({j \in DOMAIN queue :
                   queue[j].op = p /\ queue[j].name = "task-status-updated"})

\* C13: with the calls made one after the other and no command failing, an update
\* that has returned has a task-status-updated event exactly when the status the
\* store held for the task before the update differs from the status it wrote,
\* then exactly one, which carries these two statuses.
C13_EventGating ==
  (errors = 0 /\ faults = 0)
  => \A p \in TaskOps :
       (ops[p].kind = "update" /\ ops[p].pc = "done" /\ ops[p].outcome = "ok")
       => \A r \in ops[p].result :
            IF ops[p].before # r.status
            THEN /\ NumStatusEvents(p) = 1
                 /\ \A e \in StatusEvents(p) :
                      e.oldStatus = ops[p].before /\ e.newStatus = r.status
            ELSE NumStatusEvents(p) = 0

\* mutation p takes its last step
MutationEnds(p) == ops[p].kind \in Mutations /\ Running(p) /\ ops'[p].pc = "done"

\* the events of call p, waiting in setImmediate or enqueued
EventsOf(p) ==
  {e \in timers : e.op = p} \cup {queue[i] : i \in {j \in DOMAIN queue : queue[j].op = p}}

\* C14: a mutation in which a cache deletion or the enqueue failed and whose
\* store commands succeed ends with its normal result and its writes committed;
\* the step in which the enqueue fails changes neither the store nor the course
\* of a call, and the event is not handed to the queue again; a committed
\* transaction stays committed.
C14_SideEffectFailuresSwallowed ==
  [][\A p \in TaskOps :
       /\ (MutationEnds(p) /\ faults' = faults /\ (ops[p].invFailed \/ ops[p].enqFailed))
          => /\ ops'[p].outcome = "ok"
             /\ ops'[p].tx = "committed"
             /\ ops'[p].result = Returns(p)
             /\ db' = Committed(db, ops[p].writes)
       /\ (ops'[p].enqFailed /\ ~ops[p].enqFailed)
          => /\ db' = db
             /\ \A q \in TaskOps : ops'[q] = [ops[q] EXCEPT !.enqFailed = ops'[q].enqFailed]
       /\ ops'[p].enqFailed => EventsOf(p)' = {}
       /\ ops[p].tx = "committed" => ops'[p].tx = "committed"]_vars

\* a mutation has returned its task and committed it although one of its cache
\* deletions failed, and another although its enqueue failed
C14_Witness ==
  /\ \E p \in TaskOps :
       /\ ops[p].pc = "done" /\ ops[p].invFailed /\ ops[p].outcome = "ok"
       /\ ops[p].tx = "committed"
       /\ \E r \in ops[p].result : r.id \in DOMAIN db /\ db[r.id] = r
  /\ \E p \in TaskOps :
       /\ ops[p].pc = "done" /\ ops[p].enqFailed /\ ops[p].outcome = "ok"
       /\ ops[p].tx = "committed" /\ EventsOf(p) = {}

\* the calls that only read
Reads == {"findAll", "findOne"}

\* C15: while no command of the store has failed, a findAll or findOne that has
\* ended has not thrown a DatabaseException, whatever the cache did.
C15_CacheFailureNonFatal ==
  faults = 0
  => \A p \in TaskOps :
       (ops[p].kind \in Reads /\ ops[p].pc = "done") => ops[p].outcome # "error"

\* the calls that look one task up
Lookups == {"findOne", "update", "remove"}

\* call p is on a task the store holds for another user
OnForeignTask(p) ==
  /\ ops[p].kind \in Lookups /\ Running(p)
  /\ ops[p].taskId \in DOMAIN db /\ db[ops[p].taskId].userId # ops[p].userId

\* C16: a step of findOne, update or remove on a task of another user changes
\* neither the store nor the cache nor the queue, and when it ends the call it is
\* with ResourceNotFoundException, as the step that finds no row for the id does;
\* the tasks a call returns belong to the user it was called for.
C16_OwnerScopedLookup ==
  [][\A p \in TaskOps :
       /\ (OnForeignTask(p) /\ ops'[p] # ops[p])
          => /\ db' = db /\ redis' = redis /\ queue' = queue /\ timers' = timers
             /\ ops'[p].pc = "done" => ops'[p].outcome = "notfound" /\ ops'[p].result = {}
       /\ (/\ ops[p].kind \in Lookups /\ ops[p].pc = "fo_read"
           /\ ops[p].taskId \notin DOMAIN db /\ ops'[p] # ops[p])
          => ops'[p].pc = "done" /\ ops'[p].outcome = "notfound"
       /\ ops'[p].pc = "done" => \A r \in ops'[p].result : r.userId = ops'[p].userId]_vars

\* a remove of a cached task of another user and a findOne of a task of another
\* user that is not cached have both ended with ResourceNotFoundException, and
\* the store holds the tasks as they were
C16_Witness ==
  /\ \E p \in TaskOps :
       /\ ops[p].kind = "remove" /\ ops[p].pc = "done" /\ ops[p].outcome = "notfound"
       /\ ops[p].hit /\ ops[p].tx = "rolledback"
       /\ ops[p].taskId \in DOMAIN db /\ db[ops[p].taskId].userId # ops[p].userId
  /\ \E p \in TaskOps :
       /\ ops[p].kind = "findOne" /\ ops[p].pc = "done" /\ ops[p].outcome = "notfound"
       /\ ~ops[p].hit
       /\ ops[p].taskId \in DOMAIN db /\ db[ops[p].taskId].userId # ops[p].userId
  /\ db = Seed

\* the sets that wrote, and for each get that hit the set whose value it returned
Wrote == {w \in DOMAIN cc : cc[w].op = "set" /\ cc[w].result = w}
HitsOn(w) == {g \in DOMAIN cc : cc[g].op = "get" /\ cc[g].result = w}

\* the expiry every entry of the cache has: that of the set that wrote it
ExpiryKept ==
  \A k \in DOMAIN redis :
    /\ redis[k].exp > 0
    /\ redis[k].val \in Wrote
    /\ redis[k].exp = cc[redis[k].val].at + EffectiveTtl(cc[redis[k].val].opt) * MsPerSecond

\* C17 as stated: no get returns the value of a set with ttl: t more than t
\* seconds after the write, nor that of a set without a ttl more than the
\* default TTL after it, and every entry has an expiry.
C17_TtlBackstop ==
  /\ \A w \in Wrote : \A g \in HitsOn(w) :
       IF cc[w].opt = <<>>
       THEN cc[g].at <= cc[w].at + DefaultTtl * MsPerSecond
       ELSE cc[g].at <= cc[w].at + cc[w].opt[1] * MsPerSecond
  /\ \A k \in DOMAIN redis : redis[k].exp > 0

\* C17 (amended): no get returns the value of a set with ttl: t, t >= 1, more
\* than t seconds after the write; a set without a ttl or with ttl: 0 writes with
\* the default TTL; every entry has the expiry of the set that wrote it.
C17_TtlBackstopPositive ==
  /\ \A w \in Wrote : \A g \in HitsOn(w) :
       IF cc[w].opt = <<>> \/ cc[w].opt = <<0>>
       THEN cc[g].at <= cc[w].at + DefaultTtl * MsPerSecond
       ELSE cc[g].at <= cc[w].at + cc[w].opt[1] * MsPerSecond
  /\ ExpiryKept

\* a key was set with ttl: 1, read one second later or less and found, read two
\* seconds after the write and not found, with no other call on it
C17_Witness ==
  \E w \in Wrote : \E g, h \in DOMAIN cc :
    /\ cc[w].opt = <<1>>
    /\ g \in HitsOn(w) /\ cc[g].at = cc[w].at
    /\ cc[h].op = "get" /\ cc[h].key = cc[w].key /\ cc[h].namespace = cc[w].namespace
    /\ cc[h].result = 0 /\ cc[h].at = cc[w].at + 2 * MsPerSecond
    /\ \A q \in DOMAIN cc \ {w, g, h} :
         cc[q].key # cc[w].key \/ cc[q].namespace # cc[w].namespace
    /\ errors = 0

\* the requests to a route that were allowed in the window that starts at w
AllowedOn(route, w) ==
  {q \in RLReqs : rl[q].route = route /\ rl[q].windowStart = w /\ rl[q].result = "allowed"}

\* C18: with the requests made one after the other and a healthy cache, a request
\* is rejected only when the requests to its own route that were allowed in its
\* window are as many as the limit of the route's policy.
C18_QuotaPerRoute ==
  errors = 0
  => \A p \in RLReqs :
       rl[p].result = "RateLimitException"
       => Cardinality(AllowedOn(rl[p].route, rl[p].windowStart)) >= rl[p].limit

\* the step is one of the job processor: its position or its locals change
ProcessorMoves == [worker EXCEPT !.sweeps = 0]' # [worker EXCEPT !.sweeps = 0]

\* C19: a step of the job processor, whatever the job and whether its commands
\* succeed or fail, leaves the store, the calls and their scheduled callbacks as
\* they are; it changes the queue only when it takes a job or puts back the one
\* it is to try again.
C19_DispatcherLeavesStore ==
  [][ProcessorMoves
     => /\ db' = db /\ ops' = ops /\ timers' = timers
        /\ queue' # queue => worker.pc \in {"idle", "unknown"}]_vars

\* the processor has cached the statistics of a user, counted a completion, come
\* to the end of its jobs with one of them failed for good, and the store holds
\* the completed task
C19_Witness ==
  /\ worker.pc = "idle" /\ queue = <<>> /\ timers = {}
  /\ worker.failed = 1
  /\ UserStatsKey(TaskUser) \in DOMAIN redis
  /\ CompletionsKey(TaskUser) \in DOMAIN redis
  /\ \E id \in DOMAIN db : db[id].status = "COMPLETED"

\* the live keys whose namespaced name matches namespace:pattern as a glob
Matching(s, pattern, namespace) ==
  {k \in DOMAIN s : GlobMatch(GenerateKey(pattern, namespace), StripPrefix(k))}

\* the step is a delPattern call that returns a number
DelPatternReturns ==
  /\ Len(cc') = Len(cc) + 1
  /\ cc'[Len(cc')].op = "delPattern"
  /\ cc'[Len(cc')].result >= 0

\* C20: a delPattern(pattern, namespace) that returns removes exactly the live
\* keys whose namespaced name matches namespace:pattern and returns their
\* number; every other key keeps its value and its expiry, and when nothing
\* matches it returns 0 and changes nothing.
C20_DelPatternExact ==
  [][DelPatternReturns
     => LET c == cc'[Len(cc')] IN
        /\ redis' = RedisDel(redis, Matching(redis, c.key, c.namespace))
        /\ c.result = Cardinality(Matching(redis, c.key, c.namespace))]_vars

\* call p is an update whose transaction commits in this step
UpdateCommits(p) ==
  /\ ops[p].kind = "update"
  /\ ops[p].pc = "commit"
  /\ ops'[p].outcome = "ok"

\* C21: an update that commits changes in the store only the fields its dto
\* names: the status stays as the store held it when the dto names no status,
\* and the title when it names no title, whatever the cache held.
C21_UpdateWritesOnlyDto ==
  [][\A p \in TaskOps :
       UpdateCommits(p) /\ ops[p].taskId \in DOMAIN db
       => LET id == ops[p].taskId IN
          /\ ops[p].status = "none" => db'[id].status = db[id].status
          /\ ops[p].title = "none" => db'[id].title = db[id].title]_vars

\* findOne f returns a task in this step
FindOneReturns(f) ==
  /\ ops[f].kind = "findOne"
  /\ ops[f].pc # "done"
  /\ ops'[f].pc = "done"
  /\ ops'[f].outcome = "ok"

\* batchUpdate q returned with task id among its updated tasks before findOne f
\* was called, and only lookups were made between the two
BatchBefore(q, f, id) ==
  /\ q < f
  /\ ops[q].kind = "batch"
  /\ ops[q].outcome = "ok"
  /\ \E r \in ops[q].result : r.id = id
  /\ \A c \in TaskOps : q < c /\ c < f => ops[c].kind = "findOne"

\* C22: a findOne of a task that a batchUpdate has updated, called after the
\* batch returned, returns the task as the batch left it in the store.
C22_FindOneAfterBatch ==
  [][\A f \in TaskOps :
       FindOneReturns(f) /\ (\E q \in TaskOps : BatchBefore(q, f, ops[f].taskId))
       => ops'[f].result = {db[ops[f].taskId]}]_vars

\* the lockout flag expires in this step
LockoutExpires == Locked(redis) /\ ~Locked(redis') /\ now' # now

\* failed attempt p sets the lockout flag of an email that was not locked
LockoutBegins(p) == au[p].pc = "rec_lock" /\ ~Locked(redis) /\ Locked(redis')

\* C23: when the lockout flag expires the email is back in the clear state, with
\* no failed-attempt counter, and the flag of an email that is not locked is set
\* only by the attempt whose increment brought the counter to 5.
C23_ClearAfterLockout ==
  [][/\ LockoutExpires => AttemptsKey \notin DOMAIN redis'
     /\ \A p \in AuthWorkers : LockoutBegins(p) => au[p].attempts = MaxAttempts]_vars

\* C24: whenever the lockout flag exists, the failed-attempt counter exists and
\* is at least 5, and the flag is written only by an attempt whose increment
\* returned at least 5.
C24_LockoutInvariant ==
  /\ Locked(redis) => Attempts(redis) >= MaxAttempts
  /\ \A p \in AuthWorkers : au[p].pc = "rec_lock" => au[p].attempts >= MaxAttempts

\* call p is the last call made, a mutation that has returned its result
LastMutation(p) ==
  /\ ops[p].kind \in Mutations
  /\ ops[p].pc = "done"
  /\ ops[p].outcome = "ok"
  /\ ops[p].kind = "batch" => ops[p].result # {}
  /\ \A q \in TaskOps : q > p => ops[q].pc = "idle"

\* C25: with a healthy cache, once a mutation for a user has returned and until
\* the next call is made, the cache holds no list entry and no statistics of
\* that user, and after an update or a remove no entry of the task either.
C25_InvalidationScope ==
  \A p \in TaskOps :
    LastMutation(p) /\ errors = 0
    => /\ CacheKey(ListKey, "tasks") \notin DOMAIN redis
       /\ CacheKey(StatisticsKey(ops[p].userId), "tasks") \notin DOMAIN redis
       /\ ops[p].kind \in {"update", "remove"}
          => CacheKey(TaskKey(ops[p].taskId), "tasks") \notin DOMAIN redis

\* the ttl, in seconds, of the view kept under physical key k
ViewTtl(k) ==
  IF k[3] = "task" THEN TaskTtl
  ELSE IF k[3] = "stats" THEN StatisticsTtl
  ELSE ListTtl

\* every entry of the cache expires, no later than its ttl from now
ExpiryWithinTtl ==
  \A k \in DOMAIN redis :
    redis[k].exp # 0 /\ redis[k].exp <= now + ViewTtl(k) * MsPerSecond

\* what read p returns when it is answered from the store
StoreView(p) ==
  IF ops[p].kind = "findAll" THEN RowsOf(db, ops[p].userId)
  ELSE IF ops[p].kind = "findOne" THEN {db[ops[p].taskId]}
  ELSE {Statistics(db, ops[p].userId)}

\* read p returns in this step and did not find its view in the cache
ReadMisses(p) ==
  /\ ops[p].kind \in {"findAll", "findOne", "statistics"}
  /\ ops[p].pc # "done"
  /\ ops'[p].pc = "done"
  /\ ops'[p].outcome = "ok"
  /\ ~ops'[p].hit

\* C26: every cached list, task and statistics entry carries an expiry of at
\* most its ttl (300 s, 600 s, 900 s) from now, so a stale entry is gone within
\* its ttl, and a read that no longer finds the entry returns the data of the
\* store.
C26_BoundedStaleness ==
  /\ []ExpiryWithinTtl
  /\ [][\A p \in TaskOps : ReadMisses(p) => ops'[p].result = StoreView(p)]_vars

\* a findAll cached a list, a mutation made it stale, the ttl of a list went
\* by, and a later findAll missed the cache and returned the rows of the store
C26_Witness ==
  \E f, g \in TaskOps :
    /\ f < g
    /\ ops[f].kind = "findAll" /\ ops[f].outcome = "ok" /\ ~ops[f].hit
    /\ ops[g].kind = "findAll" /\ ops[g].outcome = "ok" /\ ~ops[g].hit
    /\ ops[g].result # ops[f].result
    /\ ops[g].result = RowsOf(db, TaskUser)
    /\ now >= ListTtl * MsPerSecond
    /\ errors = 0

\* floor(t / windowMs) * windowMs is the start of the window the time t is in
InWindow(ws, t) == ws <= t /\ t < ws + RateWindowMs

\* the starts of the windows the specifications cover
WindowStarts == {w * RateWindowMs : w \in 0 .. (RateHorizonMs \div RateWindowMs)}

Rejected(p) == rl[p].pc = "done" /\ rl[p].result = "RateLimitException"

\* C28: every rejection carries a retryAfter of at least one second, and
\* X-RateLimit-Remaining is 0.
C28_RetryAfterPositive ==
  \A p \in RLReqs : Rejected(p) => rl[p].retryAfter >= 1 /\ rl[p].remaining = 0

\* the request made the first increment of its counter and has not yet returned
\* from the expire call
SettingExpiry(p, ws) == rl[p].pc = "expire" /\ rl[p].windowStart = ws

\* C29: a counter key without an expiry exists only while the request that
\* made its first increment is still running, and a counter that exists inside
\* its window is not removed by the expiry.
C29_CounterHasExpiry ==
  /\ [](\A ws \in WindowStarts :
         RateCounter(ws) \in DOMAIN redis /\ redis[RateCounter(ws)].exp = 0
         => \E p \in RLReqs : SettingExpiry(p, ws))
  /\ [][\A ws \in WindowStarts :
         InWindow(ws, now') /\ RateCounter(ws) \in DOMAIN redis
         => RateCounter(ws) \in DOMAIN redis']_vars

\* the request was allowed after its increment returned (not by failing open)
AllowedCounted(p) ==
  rl[p].pc = "done" /\ rl[p].result = "allowed" /\ rl[p].newCount >= 1

\* the step is the increment of request p, which returns
IncrementReturns(p) == rl[p].pc = "incr" /\ rl'[p].newCount >= 1

\* C30 as stated: every allowed request gets X-RateLimit-Remaining =
\* max(0, limit - count) and that value is nonzero.
C30_RemainingNonzero ==
  \A p \in RLReqs :
    rl[p].pc = "done" /\ rl[p].result = "allowed"
    => /\ rl[p].remaining = Max(0, rl[p].limit - rl[p].newCount)
       /\ rl[p].remaining # 0

\* C30 amended: a request allowed after its increment returned gets
\* X-RateLimit-Remaining = max(0, limit - count), where count is the value of
\* the counter after this request's increment; the value is nonzero exactly
\* when count < limit, so the request that brings the count to the limit gets 0.
C30_RemainingFromCount ==
  /\ [](\A p \in RLReqs :
         AllowedCounted(p)
         => /\ rl[p].remaining = Max(0, rl[p].limit - rl[p].newCount)
            /\ rl[p].remaining # 0 <=> rl[p].newCount < rl[p].limit)
  /\ [][\A p \in RLReqs :
         IncrementReturns(p)
         => rl'[p].newCount = CacheGetNumber(RateKey(rl[p].windowStart), "rate_limit") + 1]_vars

\* one request brought the count to the limit and got remaining 0, another one
\* was counted beyond the limit and got remaining 0 as well
C30_Witness ==
  \E p, q \in RLReqs :
    /\ AllowedCounted(p) /\ rl[p].newCount = rl[p].limit /\ rl[p].remaining = 0
    /\ AllowedCounted(q) /\ rl[q].newCount > rl[q].limit /\ rl[q].remaining = 0
    /\ rl[p].windowStart = rl[q].windowStart

\* the step ends the job of one of the three events of a task of user u
JobProcessed(u) ==
  /\ worker.pc # "idle" /\ worker'.pc = "idle"
  /\ worker.job.name \in {"task-created", "task-status-updated", "task-deleted"}
  /\ worker.job.userId = u

\* no findAll or getStatistics is running
NoReadInFlight ==
  \A q \in TaskOps : Running(q) => ops[q].kind \notin {"findAll", "statistics"}

\* C31: when the processor has ended the job of a task-created,
\* task-status-updated or task-deleted event of user U, with a healthy cache
\* and no read in flight, the cache holds no list entry of a query of U and no
\* stats:user:U entry.
C31_DoubleInvalidation ==
  [][JobProcessed(TaskUser) /\ errors' = 0 /\ faults' = 0 /\ NoReadInFlight
     => /\ CacheKey(ListKey, "tasks") \notin DOMAIN redis'
        /\ CacheKey(StatisticsKey(TaskUser), "tasks") \notin DOMAIN redis']_vars

\* the month-bucketed status counters of the followed user
StatusCounters == {MetricsKey(TaskUser, st) : st \in Statuses}

\* the value of a counter, 0 when the key does not exist
CounterValue(s, k) == IF k \in DOMAIN s THEN s[k].val ELSE 0

\* C32: every month-bucketed status counter is >= 0 in every state, also when
\* two task-status-updated jobs of one user are processed at the same time; a
\* step raises a counter by exactly 1 and lowers it by 1 only when it is > 0.
C32_CountersFloored ==
  /\ [](\A k \in StatusCounters : CounterValue(redis, k) >= 0)
  /\ [][\A k \in StatusCounters :
         /\ CounterValue(redis', k) > CounterValue(redis, k)
            => CounterValue(redis', k) = CounterValue(redis, k) + 1
         /\ CounterValue(redis', k) < CounterValue(redis, k)
            => CounterValue(redis', k) = CounterValue(redis, k) - 1
               /\ CounterValue(redis, k) > 0]_vars

\* the names of the jobs the producers of the repository add to the queue
ProducedJobs ==
  {"task-created", "task-status-updated", "task-deleted", "tasks-batch-updated"} \cup SweepJobs

\* C33: every job a producer adds to the queue has a name that process
\* handles: no job reaches the default branch of the switch, and no job is
\* kept as failed.
C33_EveryJobHandled ==
  /\ \A i \in DOMAIN queue : queue[i].name \in ProducedJobs /\ Handler(queue[i].name) # "unknown"
  /\ worker.pc # "unknown"
  /\ worker.failed = 0

\* the tasks flagged overdue: those with an overdue job in the queue or an
\* overdue marker in the cache
Flagged ==
  {queue[i].taskIds : i \in {j \in DOMAIN queue : queue[j].name = "task-overdue"}}
  \cup {{id} : id \in {i \in SweepIds : MarkerKey(i) \in DOMAIN redis}}

\* C34: the overdue sweep flags only tasks with dueDate < now whose status is
\* neither COMPLETED nor CANCELLED, at most 1000 in a run.
C34_OverdueOnlyOpen ==
  /\ \A f \in Flagged : \A id \in f :
       /\ DueDate(id) < now
       /\ db[id].status \notin {"COMPLETED", "CANCELLED"}
  /\ Cardinality(cc.found) <= OverdueTake

\* total equals the sum of the byStatus counts
Consistent(s) == s.total = s.byStatus["PENDING"] + s.byStatus["COMPLETED"]

\* C35: every statistics value getStatistics returns or caches is consistent:
\* its total equals the sum of its byStatus counts, also when mutations commit
\* while its queries are running.
C35_StatisticsConsistent ==
  /\ \A p \in TaskOps :
       ops[p].kind = "statistics" /\ ops[p].pc = "done" /\ ops[p].outcome = "ok"
       => \A s \in ops[p].result : Consistent(s)
  /\ \A u \in TaskOwners :
       CacheKey(StatisticsKey(u), "tasks") \in DOMAIN redis
       => Consistent(redis[CacheKey(StatisticsKey(u), "tasks")].val)

\* how many entries of results.successful and results.failed name the id
Reported(p, id) ==
  LET Names(x) == x = id IN
  Cardinality({r \in ops[p].result : r.id = id}) + Len(SelectSeq(NotFoundTaskIds(p), Names))

\* C36: when batchUpdate has returned, summary.successful + summary.failed =
\* summary.total, and every id of the input is reported in exactly one entry of
\* the successful and failed lists, also when the input repeats an id.
C36_SummaryAddsUp ==
  \A p \in TaskOps :
    ops[p].kind = "batch" /\ ops[p].pc = "done" /\ ops[p].outcome = "ok"
    => /\ Summary(p).successful + Summary(p).failed = Summary(p).total
       /\ \A id \in ops[p].ids : Reported(p, id) = 1

\* C37: once a refreshToken on the token has returned tokens or a logout has
\* blacklisted it, every refreshToken on it that starts later is rejected with
\* AuthenticationException, and of all the refreshToken calls on the token, the
\* concurrent ones included, at most one returns tokens.
C37_RefreshTokenSingleUse ==
  /\ cc.succeeded <= 1
  /\ \A p \in AuthWorkers :
       au[p].pc = "done" /\ au[p].kind = "refresh" /\ au[p].revokedAtStart
       => au[p].outcome = "AuthenticationException"

\* a step of processOverdueTask fails
RowStepFails ==
  /\ cc.pc \in {"rows", "row_set"}
  /\ faults' > faults \/ errors' > errors

\* C38: checkOverdueTasks never lets an error out: every run ends logged or
\* returned.  A failing step of processOverdueTask leaves the run in its loop with
\* the rows not yet processed still to do, and a run that is over has called
\* processOverdueTask for every row it found.  Every run, the one after a failed
\* run included, starts from the rows the store holds at its tick.
C38_SweepFailureContained ==
  /\ [](cc.pc = "idle"
        => /\ cc.tried = cc.found
           /\ cc.runs > 0 => cc.outcome \in {"logged", "returned"})
  /\ [][RowStepFails
        => /\ cc'.pc \in {"rows", "metrics"} /\ cc'.outcome = "none"
           /\ cc'.found = cc.found
           /\ cc'.tried \cup cc'.todo = cc.found]_vars
  /\ [][cc.pc = "idle" /\ cc'.pc # "idle" => cc'.found = OverdueFound(db, now)]_vars

\* the second run has returned after a failed step of the first or the second:
\* the run has called processOverdueTask for more than one row, for one of them
\* the marker was never written
C38_Witness ==
  /\ cc.pc = "idle" /\ cc.runs > 1 /\ cc.outcome = "returned"
  /\ faults + errors > 0
  /\ Cardinality(cc.tried) > 1
  /\ \E id \in cc.tried : MarkerKey(id) \notin DOMAIN redis
  /\ \E id \in cc.tried : MarkerKey(id) \in DOMAIN redis

\* C39: two findAll query options that are equal as values, whatever the order in
\* which their keys were inserted at the top level or inside pagination or
\* filters, get the same cache key, and the second findAll hits the entry the
\* first one cached.
C39_KeyOrderIndependent ==
  cc.pc = "done" /\ EqualAsValues(cc.first, cc.second)
  => /\ ListCacheKey(cc.first) = ListCacheKey(cc.second)
     /\ cc.hit

\* the attempt of the job the worker holds has thrown and the queue has it back
AttemptThrew == worker.pc = "unknown" /\ worker'.pc = "idle"

\* C40: a job whose processing throws is attempted at most JobAttempts (3)
\* times: a job that waits or runs has failed fewer than 3 times, and a retry
\* waits 2000 ms after the first failure and twice as long after the second.
\* When an attempt throws, the job goes back to the queue once, or, after the
\* third failure, is counted as failed and leaves the queue for good; the request
\* that added the job is not touched.  With the worker running, the queue ends
\* empty and the worker idle: every job ends completed or failed.
C40_BoundedRetries ==
  /\ [](\A j \in {queue[i] : i \in DOMAIN queue} \cup {worker.job} :
          /\ j.attemptsMade < JobAttempts
          /\ j.delay = IF j.attemptsMade = 0 THEN 0 ELSE Backoff(j.attemptsMade))
  /\ [][AttemptThrew
        => /\ ops' = ops /\ timers' = timers
           /\ IF worker.job.attemptsMade + 1 < JobAttempts
              THEN /\ queue' = Append(queue, [worker.job EXCEPT
                                                !.attemptsMade = @ + 1,
                                                !.delay = 2 * IF @ = 0 THEN BackoffDelay \div 2 ELSE @])
                   /\ worker'.failed = worker.failed
              ELSE /\ queue' = queue
                   /\ worker'.failed = worker.failed + 1]_vars
  /\ <>[](queue = <<>> /\ worker.pc = "idle")

\* a job has thrown three times and is kept as failed; nothing is left to do
C40_Witness ==
  /\ worker.failed = 1
  /\ queue = <<>> /\ worker.pc = "idle"
  /\ \E p \in TaskOps : ops[p].pc = "done" /\ ops[p].outcome = "ok"

====
